---- MODULE Spec2Model ----
(***************************************************************************)
(* The chat server of axn_chat_app: the wire codec (common/protocol), the  *)
(* session registry (server/client_manager), and the epoll-driven server   *)
(* loop with its protocol handlers (server/server.cpp), together with the  *)
(* client connections that feed it.                                        *)
(*                                                                         *)
(* A byte is a number in 0..255, a string or buffer a sequence of bytes.   *)
(* A uint32_t is held as the 32-bit pattern read as a signed number, so    *)
(* that 0xFFFFFFFF is -1; ids are only compared for equality.              *)
(* An optional value is a sequence of length 0 (nullopt) or 1.             *)
(***************************************************************************)
EXTENDS Integers, Sequences, FiniteSets, TLC

\* ---------------------------------------------------------------- bounds
\* connections that clients open plus frames that they write during a run
MaxEvents == 5

\* sessions in the registry when broadcast_message is applied to it
MaxSessions == 3

\* frames in a buffer handed to deserialize_message, and bytes in a payload
MaxFrames == 2
MaxPayload == 2

\* messages the server sends to one client, and lines typed into it
MaxInbox == 2
MaxLines == 1

\* ------------------------------------------------------ protocol constants
SERVER_ID == 0
BROADCAST_ID == 0
INVALID_ID == -1
HEADER_SIZE == 13

C2S_JOIN == 1
C2S_BROADCAST == 2
C2S_PRIVATE == 3
C2S_LEAVE == 4
C2S_USER_JOINED_LIST == 5
S2C_JOIN_SUCCESS == 16
S2C_JOIN_FAILURE == 17
S2C_BROADCAST == 18
S2C_PRIVATE == 19
S2C_USER_JOINED == 20
S2C_USER_LEFT == 21
S2C_USER_JOINED_LIST == 22
S2C_SERVER_SHUTDOWN == 23
S2C_ERROR == 255

\* the texts the server puts in payloads, as bytes
TextUsernameExists == <<85, 115, 101, 114, 110, 97, 109, 101, 32, 97, 108, 114, 101, 97, 100, 121, 32, 101, 120, 105, 115, 116, 115>>
TextWelcome == <<87, 101, 108, 99, 111, 109, 101, 32, 116, 111, 32, 116, 104, 101, 32, 99, 104, 97, 116, 44, 32>>
TextBang == <<33>>
TextReceiverNotFound == <<82, 101, 99, 101, 105, 118, 101, 114, 32, 110, 111, 116, 32, 102, 111, 117, 110, 100, 32, 111, 114, 32, 110, 111, 116, 32, 99, 111, 110, 110, 101, 99, 116, 101, 100, 46>>
CharColon == 58
CharComma == 44
CharZero == 48

\* ------------------------------------------------------------------ codec
\* the four bytes of a uint32_t in network byte order
htonl(x) ==
  << (x \div 16777216) % 256, (x \div 65536) % 256, (x \div 256) % 256, x % 256 >>

\* the uint32_t held in four bytes in network byte order
ntohl(b) ==
  (IF b[1] >= 128 THEN b[1] - 256 ELSE b[1]) * 16777216 + b[2] * 65536 + b[3] * 256 + b[4]

MessageHeader(t, sender, receiver, size) ==
  [type |-> t, sender_id |-> sender, receiver_id |-> receiver, payload_size |-> size]

\* Message(type, sender, receiver, payload_size, payload)
MessageSized(t, sender, receiver, size, payload) ==
  [header |-> MessageHeader(t, sender, receiver, size), payload |-> payload]

\* Message(type, sender, receiver, payload): payload_size is payload.size()
Message(t, sender, receiver, payload) ==
  [header |-> MessageHeader(t, sender, receiver, Len(payload)), payload |-> payload]

\* serialize_message copies header.payload_size bytes of the payload; a size
\* above the payload's length reads past the payload, and no specification
\* hands it such a message
serialize_message(msg) ==
  <<msg.header.type % 256>>
    \o htonl(msg.header.sender_id)
    \o htonl(msg.header.receiver_id)
    \o htonl(msg.header.payload_size)
    \o [i \in 1..msg.header.payload_size |-> msg.payload[i]]

\* the values of the MessageType enum
MessageTypes ==
  { C2S_JOIN, C2S_BROADCAST, C2S_PRIVATE, C2S_LEAVE, C2S_USER_JOINED_LIST,
    S2C_JOIN_SUCCESS, S2C_JOIN_FAILURE, S2C_BROADCAST, S2C_PRIVATE, S2C_USER_JOINED,
    S2C_USER_LEFT, S2C_USER_JOINED_LIST, S2C_SERVER_SHUTDOWN, S2C_ERROR }

\* deserialize_message that refuses a type byte outside the enum
deserialize_message_known_types(buffer) ==
  IF Len(buffer) < HEADER_SIZE
  THEN [message |-> <<>>, bytes_read |-> 0]
  ELSE LET payload_size == ntohl(SubSeq(buffer, 10, 13))
       IN  IF payload_size < 0 \/ Len(buffer) < HEADER_SIZE + payload_size
              \/ buffer[1] \notin MessageTypes
           THEN [message |-> <<>>, bytes_read |-> 0]
           ELSE [message |->
                   << [header |-> MessageHeader(buffer[1],
                                                ntohl(SubSeq(buffer, 2, 5)),
                                                ntohl(SubSeq(buffer, 6, 9)),
                                                payload_size),
                       payload |-> SubSeq(buffer, HEADER_SIZE + 1,
                                          HEADER_SIZE + payload_size)] >>,
                 bytes_read |-> HEADER_SIZE + payload_size]

\* deserialize_message that reports the whole buffer as consumed
deserialize_message_consume_all(buffer) ==
  IF Len(buffer) < HEADER_SIZE
  THEN [message |-> <<>>, bytes_read |-> 0]
  ELSE LET payload_size == ntohl(SubSeq(buffer, 10, 13))
       IN  IF payload_size < 0 \/ Len(buffer) < HEADER_SIZE + payload_size
           THEN [message |-> <<>>, bytes_read |-> 0]
           ELSE [message |->
                   << [header |-> MessageHeader(buffer[1],
                                                ntohl(SubSeq(buffer, 2, 5)),
                                                ntohl(SubSeq(buffer, 6, 9)),
                                                payload_size),
                       payload |-> SubSeq(buffer, HEADER_SIZE + 1,
                                          HEADER_SIZE + payload_size)] >>,
                 bytes_read |-> Len(buffer)]

\* the pair (optional message, bytes consumed)
deserialize_message(buffer) ==
  IF Len(buffer) < HEADER_SIZE
  THEN [message |-> <<>>, bytes_read |-> 0]
  ELSE LET payload_size == ntohl(SubSeq(buffer, 10, 13))
       IN  IF payload_size < 0 \/ Len(buffer) < HEADER_SIZE + payload_size
           THEN [message |-> <<>>, bytes_read |-> 0]
           ELSE [message |->
                   << [header |-> MessageHeader(buffer[1],
                                                ntohl(SubSeq(buffer, 2, 5)),
                                                ntohl(SubSeq(buffer, 6, 9)),
                                                payload_size),
                       payload |-> SubSeq(buffer, HEADER_SIZE + 1,
                                          HEADER_SIZE + payload_size)] >>,
                 bytes_read |-> HEADER_SIZE + payload_size]

\* std::to_string of a non-negative number
RECURSIVE to_string(_)
to_string(n) ==
  IF n < 10 THEN <<CharZero + n>>
  ELSE to_string(n \div 10) \o <<CharZero + (n % 10)>>

\* ----------------------------------------------------- operating system
\* the handle of the listening socket
ListenerFd == 4
\* the handles accept() can return; accept() returns the lowest free one
FdPool == (ListenerFd + 1)..(ListenerFd + MaxEvents)
\* the value of socket_fd_ after close_socket()
ClosedFd == -1

Conns == 1..MaxEvents

\* -------------------------------------------------------------- variables
VARIABLES
  next_client_id_,   \* ClientManager: the id the next session gets
  session_by_fd_,    \* ClientManager: handle -> ClientSession (owning)
  session_by_id_,    \* ClientManager: id -> pointer to session (its handle key)
  usernames_,        \* ClientManager: the reserved usernames
  epoll_fds,         \* EpollManager: the handles registered with epoll
  pc,                \* Server: "wait" in epoll_wait, "dispatch" in the decode loop;
                     \* "start", "listening", "test", "shutdown", "notify" and
                     \* "returned" are the other places of run()
  cur,               \* Server: the handle handle_client_message was called for
  stale,             \* the memory of the session freed last, while a pointer to it is held
  backlog,           \* listener: established connections not yet accepted
  conn,              \* per connection: state, unread client bytes, client end
  fdconn,            \* open server handles -> connection
  sent,              \* the send_data calls of the last server step, in order
  accepted,          \* history: the sessions created, in accept order
  nframes,           \* history: frames written by clients
  last,              \* the kind of the last step, and the frame it dispatched
                     \* (freed: the session had been freed before the dispatch)
  running_,          \* Server: the flag run() loops on and stop() clears
  stop_pc,           \* the thread calling stop(): "idle", "stored", "done"
  codec_in,          \* codec: the messages that were serialized
  codec_buffer,      \* codec: the bytes not yet consumed
  codec_out,         \* codec: the results of deserialize_message so far
  is_running_,       \* ChatClient: the flag the input loop tests
  user_id_,          \* ChatClient: the id the server gave this client
  user_map_,         \* ChatClient: the cache id -> username
  count_mutex_,      \* ChatClient: the thread holding the cache mutex, or "free"
  connected_,        \* ServerConnection: the flag the receiver loop tests
  receive_buffer_,   \* ServerConnection: the bytes received and not yet decoded
  socket_,           \* ServerConnection: the socket: its state and the bytes
                     \* the server has sent that recv has not returned yet
  main_pc,           \* the main thread: its place in main()
  receiver_pc,       \* the receiver thread: its place in receiver_loop
  received,          \* the receiver thread: the message its handler runs for
  input,             \* the main thread: the line getline returned
  message_out,       \* the main thread: the message built for the line
  line_out,          \* history: the frames sent since the input loop last
                     \* tested its flag
  handled,           \* history: the calls of the message handler, in order
  nserver,           \* history: the number of frames the server has sent
  nlines             \* history: the number of lines read

server_vars == << next_client_id_, session_by_fd_, session_by_id_, usernames_,
                  epoll_fds, pc, cur, stale, backlog, conn, fdconn, sent, accepted,
                  nframes, last, running_, stop_pc, codec_in, codec_buffer,
                  codec_out >>

client_vars == << is_running_, user_id_, user_map_, count_mutex_, connected_,
                  receive_buffer_, socket_, main_pc, receiver_pc, received, input,
                  message_out, line_out, handled, nserver, nlines >>

vars == << server_vars, client_vars >>

\* the state the server code reads and writes, as one value
World ==
  [ next_client_id_ |-> next_client_id_, session_by_fd_ |-> session_by_fd_,
    session_by_id_ |-> session_by_id_, usernames_ |-> usernames_,
    epoll_fds |-> epoll_fds, stale |-> stale, conn |-> conn, fdconn |-> fdconn,
    sent |-> <<>>, accepted |-> accepted ]

\* the ChatClient before connect_and_join: the constructor clears is_running_
\* and user_id_, the cache is empty and no thread runs
ClientOff ==
  /\ is_running_ = FALSE
  /\ user_id_ = 0
  /\ user_map_ = << >>
  /\ count_mutex_ = "free"
  /\ connected_ = FALSE
  /\ receive_buffer_ = <<>>
  /\ socket_ = [st |-> "none", rx |-> <<>>]
  /\ main_pc = "connect"
  /\ receiver_pc = "off"
  /\ received = <<>>
  /\ input = <<>>
  /\ message_out = <<>>
  /\ line_out = <<>>
  /\ handled = <<>>
  /\ nserver = 0
  /\ nlines = 0

\* std::unordered_map: operator[] assignment and erase
Put(f, k, v) == [x \in (DOMAIN f) \cup {k} |-> IF x = k THEN v ELSE f[x]]
Erase(f, k) == [x \in (DOMAIN f) \ {k} |-> f[x]]

Min(S) == CHOOSE x \in S : \A y \in S : x <= y

\* the elements of a set of numbers in ascending order
RECURSIVE Ascending(_)
Ascending(S) ==
  IF S = {} THEN <<>> ELSE <<Min(S)>> \o Ascending(S \ {Min(S)})

\* ------------------------------------------------------------ PosixSocket
\* send_data on the server's socket with handle fd: an invalid socket sends
\* nothing, a valid one hands the bytes to the connection
send_data(W, fd, data) ==
  IF fd = ClosedFd THEN W
  ELSE [W EXCEPT !.sent = Append(@, [fd |-> fd, data |-> data])]

\* the status send_data returns for handle fd: ERROR for an invalid socket,
\* CLOSED when the peer has reset the connection, WOULD_BLOCK when the peer
\* does not read and the send buffer is full
SendStatus(W, fd) ==
  IF fd = ClosedFd \/ fd \notin DOMAIN W.fdconn THEN "ERROR"
  ELSE IF W.conn[W.fdconn[fd]].peer = "rst" THEN "CLOSED"
  ELSE IF W.conn[W.fdconn[fd]].peer = "stalled" THEN "WOULD_BLOCK"
  ELSE "OK"

\* close_socket (run by ~PosixSocket when a session is destroyed)
close_socket(W, fd) ==
  IF fd \in DOMAIN W.fdconn
  THEN [W EXCEPT !.conn[W.fdconn[fd]] = [st |-> "closed", wire |-> <<>>, peer |-> "gone"],
                 !.fdconn = Erase(@, fd)]
  ELSE W

\* ---------------------------------------------------------- ClientSession
ClientSession(id, fd) ==
  [id |-> id, fd |-> fd, username |-> <<>>, is_authenticated |-> FALSE,
   read_buffer |-> <<>>]

\* ---------------------------------------------------------- ClientManager
\* add_client taking the id from the number of live sessions
add_client_reuse(W, fd) ==
  LET id == Cardinality(DOMAIN W.session_by_id_) + 1
  IN  [W EXCEPT !.next_client_id_ = id + 1,
                !.session_by_fd_ = Put(@, fd, ClientSession(id, fd)),
                !.session_by_id_ = Put(@, id, fd)]

add_client(W, fd) ==
  LET id == W.next_client_id_
  IN  [W EXCEPT !.next_client_id_ = id + 1,
                !.session_by_fd_ = Put(@, fd, ClientSession(id, fd)),
                !.session_by_id_ = Put(@, id, fd)]

\* remove_client that leaves the entry of the by-id index in place
remove_client_keep_id(W, fd) ==
  IF fd \in DOMAIN W.session_by_fd_
  THEN LET session == W.session_by_fd_[fd]
           W1 == [W EXCEPT !.usernames_ = @ \ {session.username},
                           !.session_by_fd_ = Erase(@, fd),
                           !.stale = <<[session EXCEPT !.fd = ClosedFd]>>]
       IN  close_socket(W1, fd)
  ELSE W

\* erasing the owning entry destroys the session: its socket is closed and
\* its memory freed (kept in stale for a caller that still points to it)
remove_client(W, fd) ==
  IF fd \in DOMAIN W.session_by_fd_
  THEN LET session == W.session_by_fd_[fd]
           W1 == [W EXCEPT !.session_by_id_ = Erase(@, session.id),
                           !.usernames_ = @ \ {session.username},
                           !.session_by_fd_ = Erase(@, fd),
                           !.stale = <<[session EXCEPT !.fd = ClosedFd]>>]
       IN  close_socket(W1, fd)
  ELSE W

get_client_by_id(W, id) ==
  IF id \in DOMAIN W.session_by_id_ THEN <<W.session_by_id_[id]>> ELSE <<>>

get_client_by_fd(W, fd) ==
  IF fd \in DOMAIN W.session_by_fd_ THEN <<fd>> ELSE <<>>

\* the session pointers in the order the by-id map is iterated (order)
get_all_clients(W, order) ==
  [i \in 1..Len(order) |-> W.session_by_id_[order[i]]]

is_username_taken(W, username) == username \in W.usernames_

add_username(W, username) == [W EXCEPT !.usernames_ = @ \cup {username}]

\* the loop of broadcast_message leaving at the first send that fails
RECURSIVE BroadcastLoop_stop_on_failure(_, _, _, _)
BroadcastLoop_stop_on_failure(W, fds, data, exclude_sender_id) ==
  IF fds = <<>> THEN W
  ELSE LET session == W.session_by_fd_[Head(fds)]
           W1 == IF session.is_authenticated /\ session.id # exclude_sender_id
                 THEN send_data(W, session.fd, data)
                 ELSE W
       IN  IF W1 # W /\ SendStatus(W, session.fd) # "OK"
           THEN W1
           ELSE BroadcastLoop_stop_on_failure(W1, Tail(fds), data, exclude_sender_id)

RECURSIVE BroadcastLoop(_, _, _, _)
BroadcastLoop(W, fds, data, exclude_sender_id) ==
  IF fds = <<>> THEN W
  ELSE LET session == W.session_by_fd_[Head(fds)]
           W1 == IF session.is_authenticated /\ session.id # exclude_sender_id
                 THEN send_data(W, session.fd, data)
                 ELSE W
       IN  BroadcastLoop(W1, Tail(fds), data, exclude_sender_id)

\* broadcast_message that leaves nobody out
broadcast_message_all(W, message, exclude_sender_id) ==
  BroadcastLoop(W, Ascending(DOMAIN W.session_by_fd_), serialize_message(message),
                INVALID_ID)

broadcast_message(W, message, exclude_sender_id) ==
  BroadcastLoop(W, Ascending(DOMAIN W.session_by_fd_), serialize_message(message),
                exclude_sender_id)

\* ----------------------------------------------------------------- Server
\* the session behind the reference handle_client_message holds: the live
\* session with handle p, or what is left in memory of the freed one
Deref(W, p) == IF W.stale # <<>> THEN W.stale[1] ELSE W.session_by_fd_[p]

\* a write through that reference
Assign(W, p, session) ==
  IF W.stale # <<>> THEN [W EXCEPT !.stale = <<session>>]
  ELSE [W EXCEPT !.session_by_fd_[p] = session]

\* handle_client_disconnection stamping UserLeft with the server's id
handle_client_disconnection_server_id(W, fd) ==
  LET found == get_client_by_fd(W, fd)
  IN  IF found = <<>> THEN W
      ELSE LET session == W.session_by_fd_[found[1]]
               W1 == IF session.is_authenticated
                     THEN broadcast_message(W,
                            Message(S2C_USER_LEFT, SERVER_ID, BROADCAST_ID,
                                    session.username),
                            session.id)
                     ELSE W
               W2 == [W1 EXCEPT !.epoll_fds = @ \ {fd}]
           IN  remove_client(W2, fd)

\* handle_client_disconnection without the early return: a handle without a
\* session is still taken out of the multiplexer
handle_client_disconnection_no_return(W, fd) ==
  LET found == get_client_by_fd(W, fd)
  IN  IF found = <<>> THEN [W EXCEPT !.epoll_fds = @ \ {fd}]
      ELSE LET session == W.session_by_fd_[found[1]]
               W1 == IF session.is_authenticated
                     THEN broadcast_message(W,
                            Message(S2C_USER_LEFT, session.id, BROADCAST_ID,
                                    session.username),
                            session.id)
                     ELSE W
               W2 == [W1 EXCEPT !.epoll_fds = @ \ {fd}]
           IN  remove_client(W2, fd)

handle_client_disconnection(W, fd) ==
  LET found == get_client_by_fd(W, fd)
  IN  IF found = <<>> THEN W
      ELSE LET session == W.session_by_fd_[found[1]]
               W1 == IF session.is_authenticated
                     THEN broadcast_message(W,
                            Message(S2C_USER_LEFT, session.id, BROADCAST_ID,
                                    session.username),
                            session.id)
                     ELSE W
               W2 == [W1 EXCEPT !.epoll_fds = @ \ {fd}]
           IN  remove_client(W2, fd)

\* process_join_message stamping UserJoined with the server's id
process_join_message_server_id(W, p, message) ==
  LET session == Deref(W, p)
      username == message.payload
  IN  IF ~session.is_authenticated
      THEN IF is_username_taken(W, username)
           THEN LET W1 == send_data(W, session.fd,
                            serialize_message(
                              Message(S2C_JOIN_FAILURE, SERVER_ID, session.id,
                                      TextUsernameExists)))
                IN  handle_client_disconnection(W1, session.fd)
           ELSE LET W1 == Assign(W, p, [session EXCEPT !.username = username,
                                                       !.is_authenticated = TRUE])
                    W2 == add_username(W1, username)
                    W3 == send_data(W2, session.fd,
                            serialize_message(
                              Message(S2C_JOIN_SUCCESS, SERVER_ID, session.id,
                                      TextWelcome \o username \o TextBang)))
                IN  broadcast_message(W3,
                      Message(S2C_USER_JOINED, SERVER_ID, BROADCAST_ID, username),
                      session.id)
      ELSE W

\* process_join_message that lets an authenticated session take a new name
process_join_message_rename(W, p, message) ==
  LET session == Deref(W, p)
      username == message.payload
  IN  IF ~session.is_authenticated
      THEN IF is_username_taken(W, username)
           THEN LET W1 == send_data(W, session.fd,
                            serialize_message(
                              Message(S2C_JOIN_FAILURE, SERVER_ID, session.id,
                                      TextUsernameExists)))
                IN  handle_client_disconnection(W1, session.fd)
           ELSE LET W1 == Assign(W, p, [session EXCEPT !.username = username,
                                                       !.is_authenticated = TRUE])
                    W2 == add_username(W1, username)
                    W3 == send_data(W2, session.fd,
                            serialize_message(
                              Message(S2C_JOIN_SUCCESS, SERVER_ID, session.id,
                                      TextWelcome \o username \o TextBang)))
                IN  broadcast_message(W3,
                      Message(S2C_USER_JOINED, session.id, BROADCAST_ID, username),
                      session.id)
      ELSE add_username(Assign(W, p, [session EXCEPT !.username = username]), username)

process_join_message(W, p, message) ==
  LET session == Deref(W, p)
      username == message.payload
  IN  IF ~session.is_authenticated
      THEN IF is_username_taken(W, username)
           THEN LET W1 == send_data(W, session.fd,
                            serialize_message(
                              Message(S2C_JOIN_FAILURE, SERVER_ID, session.id,
                                      TextUsernameExists)))
                IN  handle_client_disconnection(W1, session.fd)
           ELSE LET W1 == Assign(W, p, [session EXCEPT !.username = username,
                                                       !.is_authenticated = TRUE])
                    W2 == add_username(W1, username)
                    W3 == send_data(W2, session.fd,
                            serialize_message(
                              Message(S2C_JOIN_SUCCESS, SERVER_ID, session.id,
                                      TextWelcome \o username \o TextBang)))
                IN  broadcast_message(W3,
                      Message(S2C_USER_JOINED, session.id, BROADCAST_ID, username),
                      session.id)
      ELSE W

\* "username:id" of every authenticated client but the requester, in the
\* order get_all_clients returned them
RECURSIVE UserList(_, _, _)
UserList(W, clients, session) ==
  IF clients = <<>> THEN <<>>
  ELSE LET client == W.session_by_fd_[Head(clients)]
           rest == UserList(W, Tail(clients), session)
       IN  IF client.is_authenticated /\ client.id # session.id
           THEN <<client.username \o <<CharColon>> \o to_string(client.id)>> \o rest
           ELSE rest

\* every entry followed by a comma
RECURSIVE JoinWithCommas(_)
JoinWithCommas(user_list) ==
  IF user_list = <<>> THEN <<>>
  ELSE Head(user_list) \o <<CharComma>> \o JoinWithCommas(Tail(user_list))

\* process_user_joined_list that keeps the comma after the last entry
process_user_joined_list_trailing_comma(W, p, order) ==
  LET session == Deref(W, p)
      user_list == UserList(W, get_all_clients(W, order), session)
  IN  IF user_list # <<>>
      THEN send_data(W, session.fd,
             serialize_message(
               Message(S2C_USER_JOINED_LIST, SERVER_ID, session.id,
                       JoinWithCommas(user_list))))
      ELSE W

process_user_joined_list(W, p, order) ==
  LET session == Deref(W, p)
      user_list == UserList(W, get_all_clients(W, order), session)
  IN  IF user_list # <<>>
      THEN LET with_commas == JoinWithCommas(user_list)
               user_list_str == SubSeq(with_commas, 1, Len(with_commas) - 1)
           IN  send_data(W, session.fd,
                 serialize_message(
                   Message(S2C_USER_JOINED_LIST, SERVER_ID, session.id, user_list_str)))
      ELSE W

\* process_broadcast_message forwarding the sender_id of the frame
process_broadcast_message_frame_sender(W, p, message) ==
  LET session == Deref(W, p)
  IN  IF session.is_authenticated
      THEN broadcast_message(W,
             Message(S2C_BROADCAST, message.header.sender_id, BROADCAST_ID,
                     message.payload),
             session.id)
      ELSE W

process_broadcast_message(W, p, message) ==
  LET session == Deref(W, p)
  IN  IF session.is_authenticated
      THEN broadcast_message(W,
             Message(S2C_BROADCAST, session.id, BROADCAST_ID, message.payload),
             session.id)
      ELSE W

\* process_private_message with no reply when the receiver is not found
process_private_message_silent(W, p, message) ==
  LET session == Deref(W, p)
      receiver_session == get_client_by_id(W, message.header.receiver_id)
  IN  IF session.is_authenticated /\ receiver_session # <<>>
      THEN send_data(W, W.session_by_fd_[receiver_session[1]].fd,
             serialize_message(
               Message(S2C_PRIVATE, session.id, message.header.receiver_id,
                       message.payload)))
      ELSE W

\* process_private_message forwarding with the broadcast receiver id
process_private_message_no_receiver(W, p, message) ==
  LET session == Deref(W, p)
      receiver_session == get_client_by_id(W, message.header.receiver_id)
  IN  IF session.is_authenticated /\ receiver_session # <<>>
      THEN send_data(W, W.session_by_fd_[receiver_session[1]].fd,
             serialize_message(
               Message(S2C_PRIVATE, session.id, BROADCAST_ID, message.payload)))
      ELSE IF receiver_session = <<>>
      THEN send_data(W, session.fd,
             serialize_message(
               Message(S2C_ERROR, SERVER_ID, session.id, TextReceiverNotFound)))
      ELSE W

process_private_message(W, p, message) ==
  LET session == Deref(W, p)
      receiver_session == get_client_by_id(W, message.header.receiver_id)
  IN  IF session.is_authenticated /\ receiver_session # <<>>
      THEN send_data(W, W.session_by_fd_[receiver_session[1]].fd,
             serialize_message(
               Message(S2C_PRIVATE, session.id, message.header.receiver_id,
                       message.payload)))
      ELSE IF receiver_session = <<>>
      THEN send_data(W, session.fd,
             serialize_message(
               Message(S2C_ERROR, SERVER_ID, session.id, TextReceiverNotFound)))
      ELSE W

\* process_message that disconnects the sender of an unknown type
process_message_drop_unknown(W, p, message, order) ==
  CASE message.header.type = C2S_JOIN -> process_join_message(W, p, message)
    [] message.header.type = C2S_USER_JOINED_LIST -> process_user_joined_list(W, p, order)
    [] message.header.type = C2S_BROADCAST -> process_broadcast_message(W, p, message)
    [] message.header.type = C2S_PRIVATE -> process_private_message(W, p, message)
    [] message.header.type = C2S_LEAVE -> handle_client_disconnection(W, Deref(W, p).fd)
    [] OTHER -> handle_client_disconnection(W, Deref(W, p).fd)

process_message(W, p, message, order) ==
  CASE message.header.type = C2S_JOIN -> process_join_message(W, p, message)
    [] message.header.type = C2S_USER_JOINED_LIST -> process_user_joined_list(W, p, order)
    [] message.header.type = C2S_BROADCAST -> process_broadcast_message(W, p, message)
    [] message.header.type = C2S_PRIVATE -> process_private_message(W, p, message)
    [] message.header.type = C2S_LEAVE -> handle_client_disconnection(W, Deref(W, p).fd)
    [] OTHER -> W

\* accept_connection: the oldest pending connection gets the lowest free handle
accept_connection(W, c) ==
  LET fd == Min(FdPool \ DOMAIN W.fdconn)
  IN  [W EXCEPT !.fdconn = Put(@, fd, c), !.conn[c].st = "open"]

RECURSIVE handle_new_connection(_, _)
\* handle_new_connection without the registration with epoll
handle_new_connection_no_add_fd(W, q) ==
  IF q = <<>> THEN W
  ELSE LET c == Head(q)
           W1 == accept_connection(W, c)
           fd == CHOOSE f \in DOMAIN W1.fdconn : f \notin DOMAIN W.fdconn
           W2 == add_client(W1, fd)
           W3 == [W2 EXCEPT !.accepted = Append(@, [conn |-> c,
                                                    id |-> W2.session_by_fd_[fd].id])]
       IN  CHOOSE R \in { handle_new_connection(V, T) :
                            V \in {W3}, T \in {Tail(q)} } : TRUE

\* the accept loop of handle_new_connection over the pending connections q;
\* the state after one turn is computed once, then handed to the next turn
handle_new_connection(W, q) ==
  IF q = <<>> THEN W
  ELSE LET c == Head(q)
           W1 == accept_connection(W, c)
           fd == CHOOSE f \in DOMAIN W1.fdconn : f \notin DOMAIN W.fdconn
           W2 == add_client(W1, fd)
           W3 == [W2 EXCEPT !.epoll_fds = @ \cup {fd},
                            !.accepted = Append(@, [conn |-> c,
                                                    id |-> W2.session_by_fd_[fd].id])]
       IN  CHOOSE R \in { handle_new_connection(V, T) :
                            V \in {W3}, T \in {Tail(q)} } : TRUE

\* ---------------------------------------------------------------- clients
\* the usernames clients ask for: the empty string and "a"
Names == { <<>>, <<97>> }
\* the sender id clients write into their frames: the second session's own
\* id, a foreign id for every other session
SenderIds == { 2 }
\* the receiver id of private messages: the first session's, live or removed
ReceiverIds == { 1 }
\* the frames a client may write
ClientFrames ==
  { Message(C2S_JOIN, INVALID_ID, SERVER_ID, n) : n \in Names }
    \cup { Message(C2S_BROADCAST, s, BROADCAST_ID, <<120>>) : s \in SenderIds }
    \cup { Message(C2S_PRIVATE, s, r, <<121>>) : s \in SenderIds, r \in ReceiverIds }
    \cup { Message(C2S_LEAVE, 1, SERVER_ID, <<>>),
           Message(C2S_USER_JOINED_LIST, 1, SERVER_ID, <<>>),
           Message(S2C_BROADCAST, 1, BROADCAST_ID, <<122>>) }

\* the orders in which an unordered_map with key set S can be iterated
Orders(S) ==
  { o \in [1..Cardinality(S) -> S] : \A i, j \in 1..Cardinality(S) : i # j => o[i] # o[j] }

EmptyMap == [x \in {} |-> 0]

NoFrame == [op |-> "none", fd |-> 0, message |-> <<>>]

Init ==
  /\ next_client_id_ = 1
  /\ session_by_fd_ = EmptyMap
  /\ session_by_id_ = EmptyMap
  /\ usernames_ = {}
  /\ epoll_fds = {ListenerFd}
  /\ pc = "wait"
  /\ cur = ListenerFd
  /\ stale = <<>>
  /\ backlog = <<>>
  /\ conn = [c \in Conns |-> [st |-> "idle", wire |-> <<>>, peer |-> "up"]]
  /\ fdconn = EmptyMap
  /\ sent = <<>>
  /\ accepted = <<>>
  /\ nframes = 0
  /\ last = NoFrame
  /\ running_ = TRUE
  /\ stop_pc = "idle"
  /\ codec_in = <<>>
  /\ codec_buffer = <<>>
  /\ codec_out = <<>>
  /\ ClientOff

\* the handles with an event the server has not handled yet
Pending ==
  (IF backlog # <<>> THEN {ListenerFd} ELSE {})
    \cup { fd \in DOMAIN fdconn :
             conn[fdconn[fd]].wire # <<>> \/ conn[fdconn[fd]].peer # "up" }

\* the handle a connection's next event is reported for
Source(c) ==
  IF \E fd \in DOMAIN fdconn : fdconn[fd] = c
  THEN CHOOSE fd \in DOMAIN fdconn : fdconn[fd] = c
  ELSE ListenerFd

\* the connections opened and the frames written so far
Events == Cardinality({ c \in Conns : conn[c].st # "idle" }) + nframes

\* A step of client c leaves the server alone.  The server handles one
\* readiness event at a time and a handler reads no socket but its own, so
\* the order of events on different handles is the order in which clients
\* cause them: clients act while the server waits, one handle at a time.
ClientStep(c) ==
  /\ pc = "wait"
  /\ Pending \subseteq {Source(c)}
  /\ sent' = <<>>
  /\ last' = NoFrame
  /\ UNCHANGED << next_client_id_, session_by_fd_, session_by_id_, usernames_,
                  epoll_fds, pc, cur, stale, fdconn, accepted, running_, stop_pc,
                  codec_in, codec_buffer, codec_out >>
  /\ UNCHANGED client_vars

\* connect(): the connection is established and waits in the listen queue;
\* connections are numbered in the order they are opened
Connect(c) ==
  /\ conn[c].st = "idle"
  /\ \A d \in 1..(c - 1) : conn[d].st # "idle"
  /\ Events < MaxEvents
  /\ conn' = [conn EXCEPT ![c].st = "backlog"]
  /\ backlog' = Append(backlog, c)
  /\ UNCHANGED nframes
  /\ ClientStep(c)

\* the client writes one frame
ClientWrite(c, m) ==
  /\ conn[c].st = "open"
  /\ conn[c].peer = "up"
  /\ Events < MaxEvents
  /\ conn' = [conn EXCEPT ![c].wire = @ \o serialize_message(m)]
  /\ nframes' = nframes + 1
  /\ UNCHANGED backlog
  /\ ClientStep(c)

\* the client closes its end: the server reads what is left, then end of file
ClientClose(c) ==
  /\ conn[c].st = "open"
  /\ conn[c].peer = "up"
  /\ conn' = [conn EXCEPT ![c].peer = "fin"]
  /\ UNCHANGED << backlog, nframes >>
  /\ ClientStep(c)

\* the connection is reset: epoll reports EPOLLHUP/EPOLLERR for the handle
ClientReset(c) ==
  /\ conn[c].st = "open"
  /\ conn[c].peer = "up"
  /\ conn' = [conn EXCEPT ![c].peer = "rst", ![c].wire = <<>>]
  /\ UNCHANGED << backlog, nframes >>
  /\ ClientStep(c)

\* ------------------------------------------------------------ server steps
\* the server's variables take the values of W
Commit(W) ==
  /\ next_client_id_' = W.next_client_id_
  /\ session_by_fd_' = W.session_by_fd_
  /\ session_by_id_' = W.session_by_id_
  /\ usernames_' = W.usernames_
  /\ epoll_fds' = W.epoll_fds
  /\ conn' = W.conn
  /\ fdconn' = W.fdconn
  /\ sent' = W.sent
  /\ accepted' = W.accepted
  /\ UNCHANGED << nframes, running_, stop_pc, codec_in, codec_buffer, codec_out >>
  /\ UNCHANGED client_vars

\* run(): a handler has returned and the loop tests its flag
LoopTest == IF running_ THEN "wait" ELSE "shutdown"

\* run(): the event is for the listener
HandleNewConnection ==
  /\ pc = "wait"
  /\ backlog # <<>>
  /\ Commit(handle_new_connection(World, backlog))
  /\ backlog' = <<>>
  /\ stale' = <<>>
  /\ last' = [op |-> "accept", fd |-> ListenerFd, message |-> <<>>]
  /\ pc' = LoopTest
  /\ UNCHANGED cur

\* run() testing EPOLLIN before EPOLLHUP and EPOLLERR: the handle is read
HandleHangup_read_first(fd) ==
  /\ pc = "wait"
  /\ fd \in epoll_fds
  /\ fd \in DOMAIN fdconn
  /\ conn[fdconn[fd]].peer = "rst"
  /\ Commit([World EXCEPT !.session_by_fd_[fd].read_buffer = @ \o conn[fdconn[fd]].wire,
                          !.conn[fdconn[fd]].wire = <<>>])
  /\ stale' = <<>>
  /\ last' = [op |-> "read", fd |-> fd, message |-> <<>>]
  /\ pc' = "dispatch"
  /\ cur' = fd
  /\ UNCHANGED backlog

\* run(): the event for a client handle carries EPOLLHUP or EPOLLERR
HandleHangup(fd) ==
  /\ pc = "wait"
  /\ fd \in epoll_fds
  /\ fd \in DOMAIN fdconn
  /\ conn[fdconn[fd]].peer = "rst"
  /\ Commit(handle_client_disconnection(World, fd))
  /\ stale' = <<>>
  /\ last' = [op |-> "hangup", fd |-> fd, message |-> <<>>,
              unread |-> conn[fdconn[fd]].wire]
  /\ pc' = LoopTest
  /\ UNCHANGED << cur, backlog >>

\* handle_client_message up to the decode loop: read until WOULD_BLOCK; end
\* of file runs the disconnect path and returns
HandleClientMessage(fd) ==
  /\ pc = "wait"
  /\ fd \in epoll_fds
  /\ fd \in DOMAIN fdconn
  /\ conn[fdconn[fd]].peer # "rst"
  /\ conn[fdconn[fd]].wire # <<>> \/ conn[fdconn[fd]].peer = "fin"
  /\ get_client_by_fd(World, fd) # <<>>
  /\ LET c == fdconn[fd]
         W1 == [World EXCEPT !.session_by_fd_[fd].read_buffer = @ \o conn[c].wire,
                             !.conn[c].wire = <<>>]
     IN  IF conn[c].peer = "fin"
         THEN /\ Commit(handle_client_disconnection(W1, fd))
              /\ last' = [op |-> "eof", fd |-> fd, message |-> <<>>]
              /\ pc' = LoopTest
              /\ UNCHANGED cur
         ELSE /\ Commit(W1)
              /\ pc' = "dispatch"
              /\ cur' = fd
              /\ last' = [op |-> "read", fd |-> fd, message |-> <<>>]
  /\ stale' = <<>>
  /\ UNCHANGED backlog

\* the frame the decode loop finds next in the read buffer
NextFrame == deserialize_message(Deref(World, cur).read_buffer)

\* the decode loop emptying the read buffer after each frame
DecodeLoopBody_clear(message, order) ==
  LET session == Deref(World, cur)
      W1 == Assign(World, cur, [session EXCEPT !.read_buffer = <<>>])
  IN  process_message(W1, cur, message, order)

\* one iteration of the decode loop of handle_client_message: erase the
\* frame from the read buffer and process the message decoded from it
DecodeLoopBody(message, order) ==
  LET session == Deref(World, cur)
      W1 == Assign(World, cur,
                   [session EXCEPT !.read_buffer =
                      SubSeq(@, NextFrame.bytes_read + 1, Len(@))])
  IN  process_message(W1, cur, message, order)

Dispatch(order) ==
  LET W2 == DecodeLoopBody(NextFrame.message[1], order)
  IN  /\ Commit(W2)
      /\ stale' = W2.stale
      /\ last' = [op |-> "dispatch", fd |-> cur, message |-> NextFrame.message,
                  freed |-> stale # <<>>]
      /\ UNCHANGED << pc, cur, backlog >>

FrameIs(types) ==
  /\ pc = "dispatch"
  /\ NextFrame.message # <<>>
  /\ NextFrame.message[1].header.type \in types

ProcessJoin == FrameIs({C2S_JOIN}) /\ Dispatch(<<>>)

ProcessUserJoinedList ==
  FrameIs({C2S_USER_JOINED_LIST}) /\ \E order \in Orders(DOMAIN session_by_id_) : Dispatch(order)

ProcessBroadcast == FrameIs({C2S_BROADCAST}) /\ Dispatch(<<>>)

ProcessPrivate == FrameIs({C2S_PRIVATE}) /\ Dispatch(<<>>)

ProcessLeave == FrameIs({C2S_LEAVE}) /\ Dispatch(<<>>)

ProcessUnknown ==
  FrameIs(0..255 \ {C2S_JOIN, C2S_USER_JOINED_LIST, C2S_BROADCAST, C2S_PRIVATE, C2S_LEAVE})
    /\ Dispatch(<<>>)

\* a decode loop that is left after the first frame of a read
DecodeLoopEnd_first ==
  /\ pc = "dispatch"
  /\ last.op = "dispatch" \/ NextFrame.message = <<>>
  /\ pc' = LoopTest
  /\ cur' = ListenerFd
  /\ stale' = <<>>
  /\ sent' = <<>>
  /\ last' = NoFrame
  /\ UNCHANGED << next_client_id_, session_by_fd_, session_by_id_, usernames_,
                  epoll_fds, backlog, conn, fdconn, accepted, nframes, running_,
                  stop_pc, codec_in, codec_buffer, codec_out >>
  /\ UNCHANGED client_vars

\* the decode loop ends: no complete frame in the read buffer.  After the
\* session was freed the buffer read is freed memory: the loop may find the
\* old bytes (the Process steps above) or nothing.  The handler returns to
\* run(), which holds no handle until the next event
DecodeLoopEnd ==
  /\ pc = "dispatch"
  /\ NextFrame.message = <<>> \/ stale # <<>>
  /\ pc' = LoopTest
  /\ cur' = ListenerFd
  /\ stale' = <<>>
  /\ sent' = <<>>
  /\ last' = NoFrame
  /\ UNCHANGED << next_client_id_, session_by_fd_, session_by_id_, usernames_,
                  epoll_fds, backlog, conn, fdconn, accepted, nframes, running_,
                  stop_pc, codec_in, codec_buffer, codec_out >>
  /\ UNCHANGED client_vars

Next ==
  \/ \E c \in Conns : Connect(c)
  \/ \E c \in Conns, m \in ClientFrames : ClientWrite(c, m)
  \/ \E c \in Conns : ClientClose(c)
  \/ \E c \in Conns : ClientReset(c)
  \/ HandleNewConnection
  \/ \E fd \in FdPool : HandleHangup(fd)
  \/ \E fd \in FdPool : HandleClientMessage(fd)
  \/ ProcessJoin
  \/ ProcessUserJoinedList
  \/ ProcessBroadcast
  \/ ProcessPrivate
  \/ ProcessLeave
  \/ ProcessUnknown
  \/ DecodeLoopEnd

Spec == Init /\ [][Next]_vars

\* ---------------------------------------------------------------- framing
\* One connection whose bytes reach the server in pieces: of the bytes the
\* client has written, the first k have arrived when the server reads.
\* the frames the client of this connection writes
FramingFrames ==
  { Message(C2S_JOIN, INVALID_ID, SERVER_ID, <<97>>),
    Message(C2S_BROADCAST, 1, BROADCAST_ID, <<120>>),
    Message(C2S_PRIVATE, 1, 1, <<121, 122>>) }

\* handle_client_message up to the decode loop, when k bytes have arrived:
\* recv returns them, then WOULD_BLOCK; the rest raises a later event
HandleClientMessageArrived(fd, k) ==
  /\ pc = "wait"
  /\ fd \in epoll_fds
  /\ fd \in DOMAIN fdconn
  /\ conn[fdconn[fd]].peer = "up"
  /\ k \in 1..Len(conn[fdconn[fd]].wire)
  /\ get_client_by_fd(World, fd) # <<>>
  /\ LET c == fdconn[fd]
         W1 == [World EXCEPT
                  !.session_by_fd_[fd].read_buffer = @ \o SubSeq(conn[c].wire, 1, k),
                  !.conn[c].wire = SubSeq(@, k + 1, Len(@))]
     IN  Commit(W1)
  /\ pc' = "dispatch"
  /\ cur' = fd
  /\ last' = [op |-> "read", fd |-> fd, message |-> <<>>]
  /\ stale' = <<>>
  /\ UNCHANGED backlog

NextFraming ==
  \/ Connect(1)
  \/ \E m \in FramingFrames : ClientWrite(1, m)
  \/ HandleNewConnection
  \/ \E fd \in FdPool, k \in 1..(MaxEvents * (HEADER_SIZE + 2)) :
       HandleClientMessageArrived(fd, k)
  \/ ProcessJoin
  \/ ProcessBroadcast
  \/ ProcessPrivate
  \/ DecodeLoopEnd

SpecFraming == Init /\ [][NextFraming]_vars

\* ------------------------------------------------------- run() and stop()
\* run() from its first line, with a second thread that calls stop() once.
\* The handlers of the loop are the ones above; a batch of ready events is
\* taken one event at a time, which yields the same registry and the same
\* sends because no handler reads running_.
TextShuttingDown == <<83, 101, 114, 118, 101, 114, 32, 105, 115, 32, 115, 104, 117, 116, 116, 105, 110, 103, 32, 100, 111, 119, 110, 46>>

InitStop ==
  /\ next_client_id_ = 1
  /\ session_by_fd_ = EmptyMap
  /\ session_by_id_ = EmptyMap
  /\ usernames_ = {}
  /\ epoll_fds = {}
  /\ pc = "start"
  /\ cur = ListenerFd
  /\ stale = <<>>
  /\ backlog = <<>>
  /\ conn = [c \in Conns |-> [st |-> "idle", wire |-> <<>>, peer |-> "up"]]
  /\ fdconn = EmptyMap
  /\ sent = <<>>
  /\ accepted = <<>>
  /\ nframes = 0
  /\ last = NoFrame
  /\ running_ = TRUE
  /\ stop_pc = "idle"
  /\ codec_in = <<>>
  /\ codec_buffer = <<>>
  /\ codec_out = <<>>
  /\ ClientOff

\* the listening socket accepts connections from listen() to close_socket()
Listening == pc \in {"listening", "test", "wait", "dispatch", "shutdown"}

\* a step of run() or of stop() outside the handlers
ControlStep ==
  /\ sent' = <<>>
  /\ UNCHANGED << next_client_id_, session_by_fd_, session_by_id_, usernames_,
                  cur, stale, fdconn, accepted, nframes, codec_in, codec_buffer,
                  codec_out >>
  /\ UNCHANGED client_vars

\* run(): create_listener, bind_socket, listen_socket, add_fd
RunListen ==
  /\ pc = "start"
  /\ pc' = "listening"
  /\ epoll_fds' = {ListenerFd}
  /\ last' = NoFrame
  /\ UNCHANGED << backlog, conn, running_, stop_pc >>
  /\ ControlStep

\* run(): running_ = true
RunSetRunning ==
  /\ pc = "listening"
  /\ pc' = "test"
  /\ running_' = TRUE
  /\ last' = NoFrame
  /\ UNCHANGED << epoll_fds, backlog, conn, stop_pc >>
  /\ ControlStep

\* run(): the first test of while (running_)
RunLoopTest ==
  /\ pc = "test"
  /\ pc' = LoopTest
  /\ last' = NoFrame
  /\ UNCHANGED << epoll_fds, backlog, conn, running_, stop_pc >>
  /\ ControlStep

\* stop(): running_.store(false)
StopStore ==
  /\ stop_pc = "idle"
  /\ pc # "returned"
  /\ stop_pc' = "stored"
  /\ running_' = FALSE
  /\ last' = NoFrame
  /\ UNCHANGED << epoll_fds, backlog, conn, pc >>
  /\ ControlStep

\* stop(): the connection to the own port, closed at once; it is refused
\* when the port is not listening
StopConnect ==
  /\ stop_pc = "stored"
  /\ stop_pc' = "done"
  /\ IF Listening
       THEN LET c == Min({d \in Conns : conn[d].st = "idle"})
            IN  /\ conn' = [conn EXCEPT ![c] = [st |-> "backlog", wire |-> <<>>,
                                                peer |-> "fin"]]
                /\ backlog' = Append(backlog, c)
       ELSE UNCHANGED << conn, backlog >>
  /\ last' = NoFrame
  /\ UNCHANGED << epoll_fds, pc, running_ >>
  /\ ControlStep

\* shutdown(): listener_->close_socket(); connections not yet accepted are
\* reset by the kernel
ShutdownClose ==
  /\ pc = "shutdown"
  /\ pc' = "notify"
  /\ epoll_fds' = epoll_fds \ {ListenerFd}
  /\ backlog' = <<>>
  /\ conn' = [c \in Conns |->
                IF conn[c].st = "backlog" THEN [conn[c] EXCEPT !.st = "closed"]
                                          ELSE conn[c]]
  /\ last' = [op |-> "close_listener", fd |-> ListenerFd, message |-> <<>>]
  /\ UNCHANGED << running_, stop_pc >>
  /\ ControlStep

\* shutdown(): the notice to every authenticated session, and its mutation
\* that leaves out the session with id 1
shutdown_notice_exclude_first(W) ==
  broadcast_message(W, Message(S2C_SERVER_SHUTDOWN, SERVER_ID, BROADCAST_ID,
                               TextShuttingDown), 1)

shutdown_notice(W) ==
  broadcast_message(W, Message(S2C_SERVER_SHUTDOWN, SERVER_ID, BROADCAST_ID,
                               TextShuttingDown), SERVER_ID)

\* shutdown(): broadcast_message, after which run() returns
ShutdownNotify ==
  /\ pc = "notify"
  /\ pc' = "returned"
  /\ cur' = ListenerFd
  /\ last' = [op |-> "shutdown", fd |-> ListenerFd, message |-> <<>>]
  /\ Commit(shutdown_notice(World))
  /\ UNCHANGED << stale, backlog >>

\* the clients of this specification connect and join; one connection is
\* kept for stop()
StopFrames == { Message(C2S_JOIN, INVALID_ID, SERVER_ID, n) : n \in Names }

StopClientConnect(c) == Events + 1 < MaxEvents /\ Connect(c)

StopClientWrite(c, m) == Events + 1 < MaxEvents /\ ClientWrite(c, m)

NextStop ==
  \/ RunListen
  \/ RunSetRunning
  \/ RunLoopTest
  \/ StopStore
  \/ StopConnect
  \/ ShutdownClose
  \/ ShutdownNotify
  \/ \E c \in Conns : StopClientConnect(c)
  \/ \E c \in Conns, m \in StopFrames : StopClientWrite(c, m)
  \/ HandleNewConnection
  \/ \E fd \in FdPool : HandleClientMessage(fd)
  \/ ProcessJoin
  \/ DecodeLoopEnd

\* the server thread and the stopping thread both keep running; clients may
\* stay silent for ever
ServerNext ==
  \/ RunListen \/ RunSetRunning \/ RunLoopTest \/ ShutdownClose \/ ShutdownNotify
  \/ HandleNewConnection
  \/ \E fd \in FdPool : HandleClientMessage(fd)
  \/ ProcessJoin
  \/ DecodeLoopEnd

SpecStop ==
  InitStop /\ [][NextStop]_vars /\ WF_vars(ServerNext) /\ WF_vars(StopConnect)

\* -------------------------------------------------- broadcast_message
\* broadcast_message applied to the registries the server can hold: up to
\* MaxSessions sessions accepted in order, each authenticated under a name
\* of its own or not, with a peer that reads, has reset the connection, or
\* has stopped reading.
SessionShapes == [authenticated : BOOLEAN, peer : {"up", "rst", "stalled"}]

NameOf(id) == <<96 + id>>

RegistryOf(shape) ==
  LET k == Len(shape)
      FdOf(i) == ListenerFd + i
  IN  [ session_by_fd_ |->
          [fd \in { FdOf(i) : i \in 1..k } |->
             LET i == fd - ListenerFd
             IN  [ClientSession(i, fd) EXCEPT
                    !.is_authenticated = shape[i].authenticated,
                    !.username = IF shape[i].authenticated THEN NameOf(i) ELSE <<>>]],
        session_by_id_ |-> [i \in 1..k |-> FdOf(i)],
        usernames_ |-> { NameOf(i) : i \in { j \in 1..k : shape[j].authenticated } },
        fdconn |-> [fd \in { FdOf(i) : i \in 1..k } |-> fd - ListenerFd],
        conn |-> [c \in Conns |->
                    IF c <= k THEN [st |-> "open", wire |-> <<>>, peer |-> shape[c].peer]
                              ELSE [st |-> "idle", wire |-> <<>>, peer |-> "up"]],
        accepted |-> [i \in 1..k |-> [conn |-> i, id |-> i]],
        nframes |-> Cardinality({ j \in 1..k : shape[j].authenticated }) ]

InitBroadcast ==
  \E k \in 0..MaxSessions : \E shape \in [1..k -> SessionShapes] :
    LET R == RegistryOf(shape)
    IN  /\ next_client_id_ = k + 1
        /\ session_by_fd_ = R.session_by_fd_
        /\ session_by_id_ = R.session_by_id_
        /\ usernames_ = R.usernames_
        /\ epoll_fds = {ListenerFd} \cup DOMAIN R.session_by_fd_
        /\ pc = "wait"
        /\ cur = ListenerFd
        /\ stale = <<>>
        /\ backlog = <<>>
        /\ conn = R.conn
        /\ fdconn = R.fdconn
        /\ sent = <<>>
        /\ accepted = R.accepted
        /\ nframes = R.nframes
        /\ last = NoFrame
        /\ running_ = TRUE
        /\ stop_pc = "idle"
        /\ codec_in = <<>>
        /\ codec_buffer = <<>>
        /\ codec_out = <<>>
        /\ ClientOff

\* the message a session or the server (id 0) broadcasts
BroadcastOf(x) == Message(S2C_BROADCAST, x, BROADCAST_ID, <<120>>)

\* ClientManager::broadcast_message(message, exclude_sender_id)
BroadcastMessage(x) ==
  /\ pc = "wait"
  /\ Commit(broadcast_message(World, BroadcastOf(x), x))
  /\ last' = [op |-> "broadcast", fd |-> ListenerFd, message |-> <<BroadcastOf(x)>>]
  /\ UNCHANGED << pc, cur, stale, backlog >>

NextBroadcast ==
  \/ \E x \in 0..MaxSessions : BroadcastMessage(x)
  \/ \E fd \in FdPool : HandleHangup(fd)

SpecBroadcast == InitBroadcast /\ [][NextBroadcast]_vars

\* ------------------------------------------------------------- the codec
\* serialize_message and deserialize_message applied to messages of every
\* kind of type byte, id and payload, and to buffers that hold several
\* frames and end anywhere: what a stream socket can deliver.
CodecBytes == {0, 255}

CodecPayloads == UNION { [1..n -> CodecBytes] : n \in 0..MaxPayload }

\* type bytes: below the enum, in it, and above its client and server ranges
CodecTypes == {0, C2S_JOIN, 200}

\* (sender, receiver): the reserved ids, and ids with four different bytes
CodecIds == { <<INVALID_ID, SERVER_ID>>, <<258, 16909060>> }

CodecMessages ==
  { Message(t, ids[1], ids[2], p) : t \in CodecTypes, ids \in CodecIds, p \in CodecPayloads }

CodecFrames ==
  { Message(0, INVALID_ID, SERVER_ID, <<>>),
    Message(C2S_JOIN, 258, 16909060, <<0>>),
    Message(200, 258, BROADCAST_ID, <<255, 0>>) }

CodecInputs ==
  { <<m>> : m \in CodecMessages } \cup UNION { [1..n -> CodecFrames] : n \in 2..MaxFrames }

\* the encodings of the messages, one after the other
RECURSIVE CodecWire(_)
CodecWire(messages) ==
  IF messages = <<>> THEN <<>>
  ELSE serialize_message(Head(messages)) \o CodecWire(Tail(messages))

InitCodec ==
  /\ next_client_id_ = 1
  /\ session_by_fd_ = EmptyMap
  /\ session_by_id_ = EmptyMap
  /\ usernames_ = {}
  /\ epoll_fds = {ListenerFd}
  /\ pc = "wait"
  /\ cur = ListenerFd
  /\ stale = <<>>
  /\ backlog = <<>>
  /\ conn = [c \in Conns |-> [st |-> "idle", wire |-> <<>>, peer |-> "up"]]
  /\ fdconn = EmptyMap
  /\ sent = <<>>
  /\ accepted = <<>>
  /\ nframes = 0
  /\ last = NoFrame
  /\ running_ = TRUE
  /\ stop_pc = "idle"
  /\ codec_in \in CodecInputs
  /\ codec_buffer = <<>>
  /\ codec_out = <<>>
  /\ ClientOff

\* a step of the codec leaves the server alone
CodecStep ==
  /\ UNCHANGED << next_client_id_, session_by_fd_, session_by_id_, usernames_, epoll_fds,
                  pc, cur, stale, backlog, conn, fdconn, sent, accepted, nframes, last,
                  running_, stop_pc >>
  /\ UNCHANGED client_vars

\* the messages are serialized into one buffer, of which the first n bytes
\* have arrived
SerializeMessages(n) ==
  /\ codec_buffer = <<>>
  /\ codec_out = <<>>
  /\ n \in 1..Len(CodecWire(codec_in))
  /\ codec_buffer' = SubSeq(CodecWire(codec_in), 1, n)
  /\ UNCHANGED << codec_in, codec_out >>
  /\ CodecStep

\* deserialize_message on the buffer, and the erase of the bytes it consumed;
\* the caller stops at the first call that returns no message
DeserializeMessage ==
  /\ codec_buffer # <<>>
  /\ IF codec_out = <<>> THEN TRUE ELSE codec_out[Len(codec_out)].message # <<>>
  /\ LET result == deserialize_message(codec_buffer)
     IN  /\ codec_out' = Append(codec_out, result)
         /\ codec_buffer' = SubSeq(codec_buffer, result.bytes_read + 1, Len(codec_buffer))
  /\ UNCHANGED codec_in
  /\ CodecStep

NextCodec ==
  \/ \E n \in 1..(MaxFrames * (HEADER_SIZE + MaxPayload)) : SerializeMessages(n)
  \/ DeserializeMessage

SpecCodec == InitCodec /\ [][NextCodec]_vars

\* the messages both constructors of Message build: the payload size is the
\* payload's length, or any smaller size the caller gives
SizedMessages ==
  UNION { { MessageSized(t, ids[1], ids[2], size, p) :
              t \in CodecTypes, ids \in CodecIds, size \in 0..Len(p) } :
          p \in CodecPayloads }

InitSerialize ==
  /\ next_client_id_ = 1
  /\ session_by_fd_ = EmptyMap
  /\ session_by_id_ = EmptyMap
  /\ usernames_ = {}
  /\ epoll_fds = {ListenerFd}
  /\ pc = "wait"
  /\ cur = ListenerFd
  /\ stale = <<>>
  /\ backlog = <<>>
  /\ conn = [c \in Conns |-> [st |-> "idle", wire |-> <<>>, peer |-> "up"]]
  /\ fdconn = EmptyMap
  /\ sent = <<>>
  /\ accepted = <<>>
  /\ nframes = 0
  /\ last = NoFrame
  /\ running_ = TRUE
  /\ stop_pc = "idle"
  /\ codec_in \in { <<m>> : m \in SizedMessages }
  /\ codec_buffer = <<>>
  /\ codec_out = <<>>
  /\ ClientOff

SpecSerialize == InitSerialize /\ [][NextCodec]_vars

\* ============================================================ ChatClient
\* the username the client was constructed with
username_ == <<97>>

CharAt == 64
CharSpace == 32
CharNine == 57

\* the line that ends the input loop: "/exit"
TextExit == <<47, 101, 120, 105, 116>>

\* std::string::find(ch, pos) with positions counted from 1; 0 is npos
Find(str, ch, pos) ==
  LET hits == { i \in pos..Len(str) : str[i] = ch }
  IN  IF hits = {} THEN 0 ELSE Min(hits)

\* the decimal value of a string of digits
RECURSIVE DigitsValue(_)
DigitsValue(str) ==
  IF str = <<>> THEN 0
  ELSE DigitsValue(SubSeq(str, 1, Len(str) - 1)) * 10 + (str[Len(str)] - CharZero)

\* std::stoul: the value of the digits the string starts with; with no digit
\* there it throws std::invalid_argument (the strings parsed here hold no
\* white space and no sign)
stoul(str) ==
  LET nondigit == { i \in 1..Len(str) : str[i] < CharZero \/ str[i] > CharNine }
      n == IF nondigit = {} THEN Len(str) ELSE Min(nondigit) - 1
  IN  IF n = 0 THEN [thrown |-> TRUE, value |-> 0]
      ELSE [thrown |-> FALSE, value |-> DigitsValue(SubSeq(str, 1, n))]

\* the state the message handlers of ChatClient read and write, as one
\* value; terminated: an exception left the receiver thread
ChatClient ==
  [ is_running_ |-> is_running_, user_id_ |-> user_id_, user_map_ |-> user_map_,
    terminated |-> FALSE ]

\* process_join_success that does not enter the client in its cache
process_join_success_id_only(C, message) ==
  [C EXCEPT !.user_id_ = message.header.receiver_id]

process_join_success(C, message) ==
  [C EXCEPT !.user_id_ = message.header.receiver_id,
            !.user_map_ = Put(@, message.header.receiver_id, username_)]

process_join_failure(C, message) == [C EXCEPT !.is_running_ = FALSE]

process_user_joined(C, message) ==
  [C EXCEPT !.user_map_ = Put(@, message.header.sender_id, message.payload)]

\* process_user_left that drops the client's own entry on the final notification
process_user_left_erase(C, message) ==
  IF message.header.sender_id = SERVER_ID
  THEN [C EXCEPT !.is_running_ = FALSE, !.user_map_ = Erase(@, C.user_id_)]
  ELSE [C EXCEPT !.user_map_ = Erase(@, message.header.sender_id)]

process_user_left(C, message) ==
  IF message.header.sender_id = SERVER_ID
  THEN [C EXCEPT !.is_running_ = FALSE]
  ELSE [C EXCEPT !.user_map_ = Erase(@, message.header.sender_id)]

\* process_chat_message looks the sender up and prints
process_chat_message(C, message) == C

\* the loop of ChatClient::process_user_joined_list from position pos
RECURSIVE ParseUserList(_, _, _)
ParseUserList(C, payload, pos) ==
  IF pos > Len(payload) THEN C
  ELSE LET found == Find(payload, CharComma, pos)
           next_pos == IF found = 0 THEN Len(payload) + 1 ELSE found
           user_entry == SubSeq(payload, pos, next_pos - 1)
           separator_pos == Find(user_entry, CharColon, 1)
       IN  IF user_entry # <<>> /\ separator_pos # 0
           THEN LET username == SubSeq(user_entry, 1, separator_pos - 1)
                    user_id == stoul(SubSeq(user_entry, separator_pos + 1,
                                            Len(user_entry)))
                IN  IF user_id.thrown THEN [C EXCEPT !.terminated = TRUE]
                    ELSE ParseUserList(
                           [C EXCEPT !.user_map_ = Put(@, user_id.value, username)],
                           payload, next_pos + 1)
           ELSE ParseUserList(C, payload, next_pos + 1)

\* ChatClient::process_user_joined_list
ChatClient_process_user_joined_list(C, message) ==
  ParseUserList(C, message.payload, 1)

on_message_received(C, message) ==
  CASE message.header.type = S2C_JOIN_SUCCESS -> process_join_success(C, message)
    [] message.header.type = S2C_JOIN_FAILURE -> process_join_failure(C, message)
    [] message.header.type = S2C_USER_JOINED -> process_user_joined(C, message)
    [] message.header.type = S2C_USER_LEFT -> process_user_left(C, message)
    [] message.header.type \in {S2C_BROADCAST, S2C_PRIVATE} ->
         process_chat_message(C, message)
    [] message.header.type = S2C_USER_JOINED_LIST ->
         ChatClient_process_user_joined_list(C, message)
    [] OTHER -> C

\* the handlers that read or write the cache, and those of them that take
\* count_mutex_ for it
TouchesCache(message) ==
  \/ message.header.type \in {S2C_JOIN_SUCCESS, S2C_USER_JOINED, S2C_BROADCAST,
                              S2C_PRIVATE, S2C_USER_JOINED_LIST}
  \/ message.header.type = S2C_USER_LEFT /\ message.header.sender_id # SERVER_ID

LocksCache(message) ==
  \/ message.header.type \in {S2C_USER_JOINED, S2C_USER_LEFT, S2C_USER_JOINED_LIST}
     /\ TouchesCache(message)

\* ------------------------------------------------- the server, seen from
\* the client: a registry in which the users with the given names are
\* authenticated, with the ids 1, 2, ... in this order
ListWorld(names) ==
  LET n == Len(names)
      FdOf(i) == ListenerFd + i
  IN  [ next_client_id_ |-> n + 1,
        session_by_fd_ |->
          [fd \in { FdOf(i) : i \in 1..n } |->
             [ClientSession(fd - ListenerFd, fd) EXCEPT
                !.is_authenticated = TRUE, !.username = names[fd - ListenerFd]]],
        session_by_id_ |-> [i \in 1..n |-> FdOf(i)],
        usernames_ |-> { names[i] : i \in 1..n },
        epoll_fds |-> {ListenerFd} \cup { FdOf(i) : i \in 1..n },
        stale |-> <<>>,
        conn |-> [c \in 1..n |-> [st |-> "open", wire |-> <<>>, peer |-> "up"]],
        fdconn |-> [fd \in { FdOf(i) : i \in 1..n } |-> fd - ListenerFd],
        sent |-> <<>>,
        accepted |-> [i \in 1..n |-> [conn |-> i, id |-> i]] ]

\* the frames Server::process_user_joined_list sends to the user with id 1
\* of that registry, walking the registry in the given order
ServerUserList(names, order) ==
  process_user_joined_list(ListWorld(names), ListenerFd + 1, order).sent

\* the messages the server sends to the client: the answers to its Join, the
\* notifications about user 2 ("b"), chat from user 2, the list of the users
\* "b" and "c", and the shutdown notice
ServerMessages ==
  { Message(S2C_JOIN_SUCCESS, SERVER_ID, 1, TextWelcome \o username_ \o TextBang),
    Message(S2C_JOIN_FAILURE, SERVER_ID, 1, TextUsernameExists),
    Message(S2C_USER_JOINED, 2, BROADCAST_ID, <<98>>),
    Message(S2C_USER_LEFT, 2, BROADCAST_ID, <<98>>),
    Message(S2C_BROADCAST, 2, BROADCAST_ID, <<120>>),
    Message(S2C_SERVER_SHUTDOWN, SERVER_ID, BROADCAST_ID, TextShuttingDown) }
    \cup { deserialize_message(e.data).message[1] :
             e \in { ServerUserList(<<username_, <<98>>, <<99>>>>, <<1, 2, 3>>)[1] } }

\* the lines typed: "/exit", "", "@b x", "@b", "@c x", "x y"
InputLines ==
  { TextExit, <<>>, <<CharAt, 98, CharSpace, 120>>, <<CharAt, 98>>,
    <<CharAt, 99, CharSpace, 120>>, <<120, CharSpace, 121>> }

\* a step of the main thread
MainStep ==
  /\ UNCHANGED << user_id_, user_map_, receive_buffer_, received, handled, nserver >>
  /\ UNCHANGED server_vars

\* a step of the receiver thread
ReceiverStep ==
  /\ UNCHANGED << input, message_out, line_out, nlines, nserver >>
  /\ UNCHANGED server_vars

\* the results send_data can return on the client's socket
SendStatuses ==
  CASE socket_.st = "open" -> {"OK"}
    [] socket_.st = "peer_closed" -> {"OK", "ERROR"}
    [] OTHER -> {"ERROR"}

\* ServerConnection::send_message; a failed send runs disconnect(), which
\* goes on at fail_pc
send_message(msg, ok_pc, fail_pc) ==
  \E status \in SendStatuses :
    IF ~connected_
    THEN /\ main_pc' = ok_pc
         /\ UNCHANGED << connected_, socket_, line_out >>
    ELSE IF status = "OK"
    THEN /\ line_out' = Append(line_out, serialize_message(msg))
         /\ main_pc' = ok_pc
         /\ UNCHANGED << connected_, socket_ >>
    ELSE /\ connected_' = FALSE
         /\ socket_' = [st |-> "closed", rx |-> <<>>]
         /\ main_pc' = fail_pc
         /\ UNCHANGED line_out

\* connect_and_join: ServerConnection::connect
MainConnect(ok) ==
  /\ main_pc = "connect"
  /\ IF ok
     THEN /\ socket_' = [st |-> "open", rx |-> <<>>]
          /\ connected_' = TRUE
          /\ main_pc' = "send_join"
     ELSE /\ main_pc' = "exit"
          /\ UNCHANGED << socket_, connected_ >>
  /\ UNCHANGED << is_running_, count_mutex_, receiver_pc, input, message_out,
                  line_out, nlines >>
  /\ MainStep

\* connect_and_join: send_join_request (no receiver thread to join yet)
MainSendJoin ==
  /\ main_pc = "send_join"
  /\ send_message(Message(C2S_JOIN, INVALID_ID, SERVER_ID, username_),
                  "start_receiving", "start_receiving")
  /\ UNCHANGED << is_running_, count_mutex_, receiver_pc, input, message_out, nlines >>
  /\ MainStep

\* connect_and_join: start_receiving creates the receiver thread
MainStartReceiving ==
  /\ main_pc = "start_receiving"
  /\ receiver_pc' = "test"
  /\ main_pc' = "set_running"
  /\ UNCHANGED << is_running_, count_mutex_, connected_, socket_, input, message_out,
                  line_out, nlines >>
  /\ MainStep

\* connect_and_join: is_running_ = true
MainSetRunning ==
  /\ main_pc = "set_running"
  /\ is_running_' = TRUE
  /\ main_pc' = "request_list"
  /\ UNCHANGED << count_mutex_, connected_, socket_, receiver_pc, input, message_out,
                  line_out, nlines >>
  /\ MainStep

\* main: request_list_of_users
MainRequestList ==
  /\ main_pc = "request_list"
  /\ send_message(Message(C2S_USER_JOINED_LIST, user_id_, SERVER_ID, <<>>),
                  "loop_test", "join_send")
  /\ UNCHANGED << is_running_, count_mutex_, receiver_pc, input, message_out, nlines >>
  /\ MainStep

\* run_user_input_handler: while (is_running_); the line and the message of
\* the iteration before are not read again
MainLoopTest ==
  /\ main_pc = "loop_test"
  /\ main_pc' = IF is_running_ THEN "getline" ELSE "disconnect"
  /\ input' = <<>>
  /\ message_out' = <<>>
  /\ line_out' = <<>>
  /\ UNCHANGED << is_running_, count_mutex_, connected_, socket_, receiver_pc, nlines >>
  /\ MainStep

\* run_user_input_handler: getline and the tests on the form of the line
MainGetline(line) ==
  /\ main_pc = "getline"
  /\ nlines < MaxLines
  /\ nlines' = nlines + 1
  /\ input' = line
  /\ UNCHANGED line_out
  /\ IF line = TextExit
     THEN main_pc' = "disconnect" /\ UNCHANGED message_out
     ELSE IF line = <<>>
     THEN main_pc' = "loop_test" /\ UNCHANGED message_out
     ELSE IF line[1] = CharAt
     THEN /\ main_pc' = IF Find(line, CharSpace, 1) = 0 THEN "loop_test" ELSE "lookup"
          /\ UNCHANGED message_out
     ELSE /\ message_out' = Message(C2S_BROADCAST, user_id_, BROADCAST_ID, line)
          /\ main_pc' = "send"
  /\ UNCHANGED << is_running_, count_mutex_, connected_, socket_, receiver_pc >>
  /\ MainStep

\* get_user_id_by_name: the lock_guard takes count_mutex_
MainLookupLock ==
  /\ main_pc = "lookup"
  /\ count_mutex_ = "free"
  /\ count_mutex_' = "main"
  /\ main_pc' = "lookup_read"
  /\ UNCHANGED << is_running_, connected_, socket_, receiver_pc, input, message_out,
                  line_out, nlines >>
  /\ MainStep

\* the receiver thread is writing the cache without holding count_mutex_
UnlockedWrite ==
  /\ receiver_pc = "access"
  /\ count_mutex_ # "receiver"
  /\ received.header.type = S2C_JOIN_SUCCESS

\* what the walk through the cache in get_user_id_by_name can return: an id
\* cached with the name, in the unspecified order of the map, or nothing;
\* while the other thread writes the map the walk is a data race and returns
\* anything
LookupResults(name) ==
  IF UnlockedWrite THEN {<<>>} \cup { <<k>> : k \in 1..3 }
  ELSE LET hits == { <<k>> : k \in { j \in DOMAIN user_map_ : user_map_[j] = name } }
       IN  IF hits = {} THEN {<<>>} ELSE hits

\* get_user_id_by_name under the lock, and the message built from its result
MainLookupRead ==
  /\ main_pc = "lookup_read"
  /\ LET space_pos == Find(input, CharSpace, 1)
         receiver == SubSeq(input, 2, space_pos - 1)
         msg_str == SubSeq(input, space_pos + 1, Len(input))
     IN  \E user_id \in LookupResults(receiver) :
           IF user_id = <<>>
           THEN main_pc' = "loop_test" /\ UNCHANGED message_out
           ELSE /\ message_out' = Message(C2S_PRIVATE, user_id_, user_id[1], msg_str)
                /\ main_pc' = "send"
  /\ count_mutex_' = "free"
  /\ UNCHANGED << is_running_, connected_, socket_, receiver_pc, input, line_out, nlines >>
  /\ MainStep

\* run_user_input_handler: send_message for the line
MainSendLine ==
  /\ main_pc = "send"
  /\ send_message(message_out, "loop_test", "join_send")
  /\ UNCHANGED << is_running_, count_mutex_, receiver_pc, input, message_out, nlines >>
  /\ MainStep

\* disconnect() that clears the flag but leaves the socket open
MainDisconnect_no_close ==
  /\ main_pc = "disconnect"
  /\ connected_' = FALSE
  /\ main_pc' = "join"
  /\ UNCHANGED << is_running_, count_mutex_, socket_, receiver_pc, input, message_out,
                  line_out, nlines >>
  /\ MainStep

\* run_user_input_handler: disconnect() after the loop
MainDisconnect ==
  /\ main_pc = "disconnect"
  /\ connected_' = FALSE
  /\ socket_' = [st |-> "closed", rx |-> <<>>]
  /\ main_pc' = "join"
  /\ UNCHANGED << is_running_, count_mutex_, receiver_pc, input, message_out, line_out, nlines >>
  /\ MainStep

\* disconnect(): receiver_thread_.join() returns when the thread has ended
MainJoin ==
  /\ main_pc \in {"join", "join_send"}
  /\ receiver_pc = "done"
  /\ main_pc' = IF main_pc = "join" THEN "clear_running" ELSE "loop_test"
  /\ UNCHANGED << is_running_, count_mutex_, connected_, socket_, receiver_pc, input,
                  message_out, line_out, nlines >>
  /\ MainStep

\* run_user_input_handler: is_running_ = false, and main returns
MainClearRunning ==
  /\ main_pc = "clear_running"
  /\ is_running_' = FALSE
  /\ main_pc' = "exit"
  /\ UNCHANGED << count_mutex_, connected_, socket_, receiver_pc, input, message_out,
                  line_out, nlines >>
  /\ MainStep

\* receiver_loop: while (is_connected())
RecvLoopTest ==
  /\ receiver_pc = "test"
  /\ receiver_pc' = IF connected_ THEN "receive" ELSE "after_loop"
  /\ UNCHANGED << is_running_, user_id_, user_map_, count_mutex_, connected_,
                  receive_buffer_, socket_, main_pc, received, handled >>
  /\ ReceiverStep

\* receiver_loop: receive_data returns ERROR on a socket closed locally, OK
\* with the bytes that have arrived, CLOSED or ERROR when none are left and
\* the server has closed or reset the connection; otherwise it blocks
RecvReceive ==
  /\ receiver_pc = "receive"
  /\ socket_.st # "open" \/ socket_.rx # <<>>
  /\ IF socket_.st # "closed" /\ socket_.rx # <<>>
     THEN /\ receive_buffer_' = receive_buffer_ \o socket_.rx
          /\ socket_' = [socket_ EXCEPT !.rx = <<>>]
          /\ receiver_pc' = "decode"
          /\ UNCHANGED connected_
     ELSE /\ connected_' = FALSE
          /\ receiver_pc' = "after_loop"
          /\ UNCHANGED << receive_buffer_, socket_ >>
  /\ UNCHANGED << is_running_, user_id_, user_map_, count_mutex_, main_pc, received,
                  handled >>
  /\ ReceiverStep

\* receiver_loop: deserialize_message on the receive buffer
RecvDecode ==
  /\ receiver_pc = "decode"
  /\ LET result == deserialize_message(receive_buffer_)
     IN  IF result.message # <<>>
         THEN received' = result.message[1] /\ receiver_pc' = "handler"
         ELSE UNCHANGED received /\ receiver_pc' = "test"
  /\ UNCHANGED << is_running_, user_id_, user_map_, count_mutex_, connected_,
                  receive_buffer_, socket_, main_pc, handled >>
  /\ ReceiverStep

\* the receive buffer after the erase of the frame decoded last
Erased == SubSeq(receive_buffer_, deserialize_message(receive_buffer_).bytes_read + 1,
                 Len(receive_buffer_))

\* receiver_loop: on_message is called. A handler that touches the cache
\* first takes the mutex, if it takes it at all (process_join_success has
\* stored user_id_ by then); any other handler runs to its end
RecvHandler ==
  /\ receiver_pc = "handler"
  /\ handled' = Append(handled, [type |-> received.header.type,
                                 sender_id |-> received.header.sender_id,
                                 final |-> FALSE])
  /\ IF TouchesCache(received)
     THEN /\ LocksCache(received) => count_mutex_ = "free"
          /\ count_mutex_' = IF LocksCache(received) THEN "receiver" ELSE count_mutex_
          /\ user_id_' = IF received.header.type = S2C_JOIN_SUCCESS
                         THEN received.header.receiver_id ELSE user_id_
          /\ receiver_pc' = "access"
          /\ UNCHANGED << is_running_, user_map_, receive_buffer_, received >>
     ELSE LET C == on_message_received(ChatClient, received)
          IN  /\ is_running_' = C.is_running_
              /\ user_id_' = C.user_id_
              /\ user_map_' = C.user_map_
              /\ receive_buffer_' = Erased
              /\ received' = <<>>
              /\ receiver_pc' = "decode"
              /\ UNCHANGED count_mutex_
  /\ UNCHANGED << connected_, socket_, main_pc >>
  /\ ReceiverStep

\* the handler reads or writes the cache and returns; the frame is erased
\* from the receive buffer and the decoded message is destroyed. An exception
\* leaving the handler ends the process
RecvAccess ==
  /\ receiver_pc = "access"
  /\ LET C == on_message_received(ChatClient, received)
     IN  /\ is_running_' = C.is_running_
         /\ user_id_' = C.user_id_
         /\ user_map_' = C.user_map_
         /\ receiver_pc' = IF C.terminated THEN "terminated" ELSE "decode"
         /\ main_pc' = IF C.terminated THEN "terminated" ELSE main_pc
  /\ count_mutex_' = IF count_mutex_ = "receiver" THEN "free" ELSE count_mutex_
  /\ receive_buffer_' = Erased
  /\ received' = <<>>
  /\ UNCHANGED << connected_, socket_, handled >>
  /\ ReceiverStep

\* the notification receiver_loop builds after its loop
shutdown_msg ==
  [header |-> MessageHeader(S2C_USER_LEFT, SERVER_ID, INVALID_ID, 0), payload |-> <<>>]

\* receiver_loop after the loop: on_message(shutdown_msg), and the thread ends
RecvAfterLoop ==
  /\ receiver_pc = "after_loop"
  /\ LET C == on_message_received(ChatClient, shutdown_msg)
     IN  /\ is_running_' = C.is_running_
         /\ user_id_' = C.user_id_
         /\ user_map_' = C.user_map_
  /\ handled' = Append(handled, [type |-> shutdown_msg.header.type,
                                 sender_id |-> shutdown_msg.header.sender_id,
                                 final |-> TRUE])
  /\ receiver_pc' = "done"
  /\ UNCHANGED << count_mutex_, connected_, receive_buffer_, socket_, main_pc,
                  received >>
  /\ ReceiverStep

\* a step of the server or of the network
NetworkStep ==
  /\ UNCHANGED << is_running_, user_id_, user_map_, count_mutex_, connected_,
                  receive_buffer_, main_pc, receiver_pc, received, input, message_out,
                  line_out, handled, nlines >>
  /\ UNCHANGED server_vars

\* the server sends a message
ServerSend(m) ==
  /\ socket_.st = "open"
  /\ nserver < MaxInbox
  /\ nserver' = nserver + 1
  /\ socket_' = [socket_ EXCEPT !.rx = @ \o serialize_message(m)]
  /\ NetworkStep

\* the server closes the connection
ServerClose ==
  /\ socket_.st = "open"
  /\ socket_' = [socket_ EXCEPT !.st = "peer_closed"]
  /\ UNCHANGED nserver
  /\ NetworkStep

\* the connection is reset; the bytes not yet read are lost
ServerReset ==
  /\ socket_.st = "open"
  /\ socket_' = [st |-> "reset", rx |-> <<>>]
  /\ UNCHANGED nserver
  /\ NetworkStep

NextClient ==
  \/ \E ok \in BOOLEAN : MainConnect(ok)
  \/ MainSendJoin
  \/ MainStartReceiving
  \/ MainSetRunning
  \/ MainRequestList
  \/ MainLoopTest
  \/ \E line \in InputLines : MainGetline(line)
  \/ MainLookupLock
  \/ MainLookupRead
  \/ MainSendLine
  \/ MainDisconnect
  \/ MainJoin
  \/ MainClearRunning
  \/ RecvLoopTest
  \/ RecvReceive
  \/ RecvDecode
  \/ RecvHandler
  \/ RecvAccess
  \/ RecvAfterLoop
  \/ \E m \in ServerMessages : ServerSend(m)
  \/ ServerClose
  \/ ServerReset

SpecClient == Init /\ [][NextClient]_vars

\* ------------------------------------------------ the list of the users
\* usernames the server accepts: it takes any bytes that no other user holds
ListNames == { <<98>>, <<>>, <<CharComma>>, <<CharColon>>, <<98, CharColon, 50>> }

\* the users of a registry next to the client, which has the id 1: up to
\* MaxSessions - 1 users with different names
ListRegistries ==
  { <<username_>> \o others :
      others \in { o \in UNION { [1..n -> ListNames] : n \in 1..(MaxSessions - 1) } :
                     \A i, j \in 1..Len(o) : i # j => o[i] # o[j] } }

\* the client after connect_and_join and request_list_of_users, its main
\* thread waiting for a line and its receiver thread at the loop test; the
\* cache is empty, or holds the client itself, or the client and the id 2
InitList ==
  /\ next_client_id_ = 1
  /\ session_by_fd_ = EmptyMap
  /\ session_by_id_ = EmptyMap
  /\ usernames_ = {}
  /\ epoll_fds = {ListenerFd}
  /\ pc = "wait"
  /\ cur = ListenerFd
  /\ stale = <<>>
  /\ backlog = <<>>
  /\ conn = [c \in Conns |-> [st |-> "idle", wire |-> <<>>, peer |-> "up"]]
  /\ fdconn = EmptyMap
  /\ sent = <<>>
  /\ accepted = <<>>
  /\ nframes = 0
  /\ last = NoFrame
  /\ running_ = TRUE
  /\ stop_pc = "idle"
  /\ codec_in = <<>>
  /\ codec_buffer = <<>>
  /\ codec_out = <<>>
  /\ is_running_ = TRUE
  /\ user_id_ = 1
  /\ user_map_ \in { << >>, (1 :> username_), (1 :> username_) @@ (2 :> <<122>>) }
  /\ count_mutex_ = "free"
  /\ connected_ = TRUE
  /\ receive_buffer_ = <<>>
  /\ socket_ = [st |-> "open", rx |-> <<>>]
  /\ main_pc = "getline"
  /\ receiver_pc = "test"
  /\ received = <<>>
  /\ input = <<>>
  /\ message_out = <<>>
  /\ line_out = <<>>
  /\ handled = <<>>
  /\ nserver = 0
  /\ nlines = MaxLines

\* the server answers the one request of the client for the list
ServerSendList(names, order) ==
  /\ socket_.st = "open"
  /\ nserver = 0
  /\ nserver' = 1
  /\ socket_' = [socket_ EXCEPT !.rx = @ \o ServerUserList(names, order)[1].data]
  /\ NetworkStep

NextList ==
  \/ \E names \in ListRegistries :
       \E order \in Orders(1..Len(names)) : ServerSendList(names, order)
  \/ ServerClose
  \/ RecvLoopTest
  \/ RecvReceive
  \/ RecvDecode
  \/ RecvHandler
  \/ RecvAccess
  \/ RecvAfterLoop

SpecList == InitList /\ [][NextList]_vars

\* ================================================================ claims
\* the message of an entry of sent
Decoded(e) == deserialize_message(e.data).message[1]

\* the number of messages of type t that s holds for handle fd
Count(s, fd, t) ==
  Cardinality({ i \in 1..Len(s) : s[i].fd = fd /\ Decoded(s[i]).header.type = t })

\* s holds one message of type t for each handle in F and none for another
ExactlyOnceTo(s, F, t) ==
  \A fd \in FdPool : Count(s, fd, t) = IF fd \in F THEN 1 ELSE 0

\* the authenticated live sessions other than the one with handle f
OthersAuth(f) ==
  { fd \in DOMAIN session_by_fd_ : fd # f /\ session_by_fd_[fd].is_authenticated }

\* this step dispatches a frame of one of the types, sent by a live session
Dispatched(types) ==
  /\ last'.op = "dispatch"
  /\ stale = <<>>
  /\ NextFrame.message[1].header.type \in types

\* the live sessions with id i
WithId(i) == { fd \in DOMAIN session_by_fd_ : session_by_fd_[fd].id = i }

\* C1: no two live authenticated sessions have the same username
C1_UniqueUsernames ==
  \A f, g \in DOMAIN session_by_fd_ :
    (f # g /\ session_by_fd_[f].is_authenticated /\ session_by_fd_[g].is_authenticated)
      => session_by_fd_[f].username # session_by_fd_[g].username

\* C2: a Broadcast from an authenticated session is sent once to every other
\* authenticated session and to nobody else, and broadcast_message sends to
\* exactly the authenticated sessions whose id is not the excluded one
C2_BroadcastExclusion ==
  [][ /\ \A x \in 0..MaxEvents :
           LET out == broadcast_message(World,
                        Message(S2C_BROADCAST, x, BROADCAST_ID, <<>>), x).sent
           IN  \A fd \in FdPool :
                 Cardinality({ i \in 1..Len(out) : out[i].fd = fd })
                   = IF /\ fd \in DOMAIN session_by_fd_
                        /\ session_by_fd_[fd].is_authenticated
                        /\ session_by_fd_[fd].id # x
                     THEN 1 ELSE 0
      /\ (Dispatched({C2S_BROADCAST}) /\ session_by_fd_[cur].is_authenticated)
           => /\ ExactlyOnceTo(sent', OthersAuth(cur), S2C_BROADCAST)
              /\ Len(sent') = Cardinality(OthersAuth(cur)) ]_vars

\* C2 witness: with two authenticated sessions, a broadcast of one was sent
\* once, to the other
C2_Witness ==
  /\ last.op = "dispatch"
  /\ last.message[1].header.type = C2S_BROADCAST
  /\ Len(sent) = 1
  /\ Decoded(sent[1]).header.type = S2C_BROADCAST
  /\ sent[1].fd # last.fd
  /\ last.fd \in DOMAIN session_by_fd_
  /\ \A fd \in {last.fd, sent[1].fd} : session_by_fd_[fd].is_authenticated

\* C3: a Join with a free username authenticates the session under that
\* name, reserves the name, sends JoinSuccess (receiver_id = its id) to it and
\* then one UserJoined (sender_id = its id, payload = the name) to every other
\* authenticated session and none to itself
C3_JoinSuccess ==
  [][ ( /\ Dispatched({C2S_JOIN})
        /\ ~session_by_fd_[cur].is_authenticated
        /\ NextFrame.message[1].payload \notin usernames_ )
      => LET name == NextFrame.message[1].payload
             id == session_by_fd_[cur].id
         IN  /\ cur \in DOMAIN session_by_fd_'
             /\ session_by_fd_'[cur].is_authenticated
             /\ session_by_fd_'[cur].username = name
             /\ session_by_fd_'[cur].id = id
             /\ name \in usernames_'
             /\ Len(sent') = 1 + Cardinality(OthersAuth(cur))
             /\ sent'[1].fd = cur
             /\ Decoded(sent'[1]).header.type = S2C_JOIN_SUCCESS
             /\ Decoded(sent'[1]).header.receiver_id = id
             /\ ExactlyOnceTo(sent', {cur}, S2C_JOIN_SUCCESS)
             /\ ExactlyOnceTo(sent', OthersAuth(cur), S2C_USER_JOINED)
             /\ \A i \in 2..Len(sent') :
                  /\ Decoded(sent'[i]).header.type = S2C_USER_JOINED
                  /\ Decoded(sent'[i]).header.sender_id = id
                  /\ Decoded(sent'[i]).payload = name ]_vars

\* C3 witness: a join was answered with JoinSuccess and announced to another
C3_Witness ==
  /\ last.op = "dispatch"
  /\ last.message[1].header.type = C2S_JOIN
  /\ Len(sent) >= 2
  /\ Decoded(sent[1]).header.type = S2C_JOIN_SUCCESS
  /\ Decoded(sent[2]).header.type = S2C_USER_JOINED
  /\ sent[2].fd # sent[1].fd

\* C4: a Join with a taken username is answered with JoinFailure and the
\* session is disconnected: it is not authenticated, it is gone from the
\* registry, nothing is broadcast, and the taken usernames are unchanged
C4_JoinRejected ==
  [][ ( /\ Dispatched({C2S_JOIN})
        /\ ~session_by_fd_[cur].is_authenticated
        /\ NextFrame.message[1].payload \in usernames_ )
      => /\ Len(sent') = 1
         /\ sent'[1].fd = cur
         /\ Decoded(sent'[1]).header.type = S2C_JOIN_FAILURE
         /\ cur \notin DOMAIN session_by_fd_'
         /\ session_by_fd_[cur].id \notin DOMAIN session_by_id_'
         /\ cur \notin epoll_fds'
         /\ usernames_' = usernames_ ]_vars

\* what C4 says apart from the taken usernames (holds)
C4_RejectedButNames ==
  [][ ( /\ Dispatched({C2S_JOIN})
        /\ ~session_by_fd_[cur].is_authenticated
        /\ NextFrame.message[1].payload \in usernames_ )
      => /\ Len(sent') = 1
         /\ sent'[1].fd = cur
         /\ Decoded(sent'[1]).header.type = S2C_JOIN_FAILURE
         /\ cur \notin DOMAIN session_by_fd_'
         /\ session_by_fd_[cur].id \notin DOMAIN session_by_id_'
         /\ cur \notin epoll_fds' ]_vars

\* this step runs the disconnect path for the live session with handle f
DisconnectOf(f) ==
  \/ last'.op \in {"hangup", "eof"} /\ last'.fd = f
  \/ Dispatched({C2S_LEAVE}) /\ cur = f
  \/ /\ Dispatched({C2S_JOIN}) /\ cur = f
     /\ ~session_by_fd_[cur].is_authenticated
     /\ NextFrame.message[1].payload \in usernames_

\* C5: the disconnect path of a live session sends one UserLeft (sender_id =
\* its id, not 0, payload = its username) to every other authenticated
\* session when it is authenticated and no UserLeft when it is not, and
\* leaves the session out of the registry and of the multiplexer
C5_DisconnectPath ==
  [][ \A f \in FdPool :
        DisconnectOf(f) =>
          LET S == session_by_fd_[f]
          IN  /\ IF S.is_authenticated
                 THEN ExactlyOnceTo(sent', OthersAuth(f), S2C_USER_LEFT)
                 ELSE ExactlyOnceTo(sent', {}, S2C_USER_LEFT)
              /\ \A i \in 1..Len(sent') :
                   \/ /\ Decoded(sent'[i]).header.type = S2C_USER_LEFT
                      /\ Decoded(sent'[i]).header.sender_id = S.id
                      /\ Decoded(sent'[i]).header.sender_id # 0
                      /\ Decoded(sent'[i]).payload = S.username
                   \/ /\ Decoded(sent'[i]).header.type = S2C_JOIN_FAILURE
                      /\ i = 1
                      /\ last'.op = "dispatch"
              /\ f \notin DOMAIN session_by_fd_'
              /\ S.id \notin DOMAIN session_by_id_'
              /\ \A g \in DOMAIN session_by_fd_' : session_by_fd_'[g].id # S.id
              /\ f \notin epoll_fds' ]_vars

\* C5 witness: an authenticated session was disconnected and another was told
C5_Witness ==
  /\ last.op \in {"hangup", "eof", "dispatch"}
  /\ Len(sent) = 1
  /\ Decoded(sent[1]).header.type = S2C_USER_LEFT
  /\ Decoded(sent[1]).payload = <<97>>
  /\ last.fd \notin DOMAIN session_by_fd_

C7_PrivateDelivery ==
  [][ ( /\ Dispatched({C2S_PRIVATE})
        /\ session_by_fd_[cur].is_authenticated
        /\ WithId(NextFrame.message[1].header.receiver_id) # {} )
      => /\ Len(sent') = 1
         /\ WithId(NextFrame.message[1].header.receiver_id) = {sent'[1].fd}
         /\ Decoded(sent'[1]) =
              Message(S2C_PRIVATE, session_by_fd_[cur].id,
                      NextFrame.message[1].header.receiver_id,
                      NextFrame.message[1].payload) ]_vars

\* C7 witness: a private message was delivered to another session
C7_Witness ==
  /\ last.op = "dispatch"
  /\ last.message[1].header.type = C2S_PRIVATE
  /\ Len(sent) = 1
  /\ Decoded(sent[1]).header.type = S2C_PRIVATE
  /\ sent[1].fd # last.fd

\* C8: Broadcast, Private and UserJoinedList from a session that is not
\* authenticated send nothing and change nothing in the registry
C8_UnauthenticatedIgnored ==
  [][ ( /\ Dispatched({C2S_BROADCAST, C2S_PRIVATE, C2S_USER_JOINED_LIST})
        /\ ~session_by_fd_[cur].is_authenticated )
      => /\ sent' = <<>>
         /\ session_by_id_' = session_by_id_
         /\ usernames_' = usernames_
         /\ DOMAIN session_by_fd_' = DOMAIN session_by_fd_
         /\ \A fd \in DOMAIN session_by_fd_ :
              /\ session_by_fd_'[fd].id = session_by_fd_[fd].id
              /\ session_by_fd_'[fd].username = session_by_fd_[fd].username
              /\ session_by_fd_'[fd].is_authenticated = session_by_fd_[fd].is_authenticated ]_vars

\* the part of C8 about Broadcast (holds)
C8_UnauthenticatedBroadcast ==
  [][ ( /\ Dispatched({C2S_BROADCAST})
        /\ ~session_by_fd_[cur].is_authenticated )
      => sent' = <<>> ]_vars

\* the sender ids a client can put in a frame
SpoofIds == { SERVER_ID, INVALID_ID } \cup 1..MaxEvents

\* C9: every S2C_BROADCAST and S2C_PRIVATE carries as sender_id the id of the
\* session that the frame was read from, and the step is the same whatever
\* sender_id the client wrote in the frame
C9_SenderRestamped ==
  [][ last'.op = "dispatch" =>
        /\ \A i \in 1..Len(sent') :
             Decoded(sent'[i]).header.type \in {S2C_BROADCAST, S2C_PRIVATE}
               => Decoded(sent'[i]).header.sender_id = Deref(World, cur).id
        /\ \A s \in SpoofIds :
             \E order \in Orders(DOMAIN session_by_id_) :
               LET W2 == DecodeLoopBody(
                           [NextFrame.message[1] EXCEPT !.header.sender_id = s], order)
               IN  /\ sent' = W2.sent
                   /\ session_by_fd_' = W2.session_by_fd_
                   /\ session_by_id_' = W2.session_by_id_
                   /\ usernames_' = W2.usernames_ ]_vars

\* C9 witness: a broadcast whose frame named another sender id was forwarded
\* with the id of its session
C9_Witness ==
  /\ last.op = "dispatch"
  /\ last.message[1].header.type = C2S_BROADCAST
  /\ Len(sent) >= 1
  /\ Decoded(sent[1]).header.type = S2C_BROADCAST
  /\ Decoded(sent[1]).header.sender_id # last.message[1].header.sender_id

\* the id that accept gave to connection c
IdOf(c) == (CHOOSE e \in { accepted[i] : i \in 1..Len(accepted) } : e.conn = c).id

\* C10: ids are given at accept, from 1 and increasing in accept order, so
\* no id is given twice, also after its session was removed; a session keeps
\* the id it got and JoinSuccess carries it as receiver_id
C10_IdsIncreasing ==
  /\ Len(accepted) >= 1 => accepted[1].id = 1
  /\ \A i, j \in 1..Len(accepted) : i < j => accepted[i].id < accepted[j].id
  /\ \A fd \in DOMAIN session_by_fd_ : session_by_fd_[fd].id = IdOf(fdconn[fd])
  /\ \A i \in 1..Len(sent) :
       Decoded(sent[i]).header.type = S2C_JOIN_SUCCESS
         => Decoded(sent[i]).header.receiver_id = IdOf(fdconn[sent[i].fd])

\* C10 witness: the lowest handle is reused by a later session, which got
\* JoinSuccess with a new id for it
C10_Witness ==
  /\ Len(sent) >= 1
  /\ Decoded(sent[1]).header.type = S2C_JOIN_SUCCESS
  /\ sent[1].fd = ListenerFd + 1
  /\ Decoded(sent[1]).header.receiver_id >= 2
  /\ Len(accepted) >= 2

\* ------------------------------------------------------------------- C11
\* the ids and the handles a lookup can be asked for
LookupIds == { SERVER_ID, INVALID_ID } \cup 1..(MaxEvents + 1)
LookupFds == { ClosedFd, ListenerFd } \cup FdPool

\* the by-handle index and the by-id index describe the same sessions
IndexesAgree(W) ==
  /\ \A f \in DOMAIN W.session_by_fd_ :
       /\ W.session_by_fd_[f].fd = f
       /\ \A g \in DOMAIN W.session_by_fd_ :
            f # g => W.session_by_fd_[f].id # W.session_by_fd_[g].id
  /\ \A f \in LookupFds :
       get_client_by_fd(W, f) = IF f \in DOMAIN W.session_by_fd_ THEN <<f>> ELSE <<>>
  /\ \A i \in LookupIds :
       LET live == { f \in DOMAIN W.session_by_fd_ : W.session_by_fd_[f].id = i }
       IN  /\ live = {} => get_client_by_id(W, i) = <<>>
           /\ \A f \in live : get_client_by_id(W, i) = <<f>>
  /\ DOMAIN W.session_by_id_ \subseteq LookupIds
  /\ \A order \in Orders(DOMAIN W.session_by_id_) :
       LET clients == get_all_clients(W, order)
       IN  /\ Len(clients) = Cardinality(DOMAIN W.session_by_fd_)
           /\ { clients[k] : k \in 1..Len(clients) } = DOMAIN W.session_by_fd_

\* a session was added to an index or removed from one
IndexesChanged ==
  \/ DOMAIN session_by_fd_' # DOMAIN session_by_fd_
  \/ session_by_id_' # session_by_id_

\* C11: before and after every step that adds or removes a session the two
\* indexes of the registry hold the same live sessions, one per handle and
\* per id, with get_all_clients returning exactly them; a step that removes
\* a session leaves both lookups for it reporting not found
C11_IndexesAgree ==
  [][ /\ IndexesChanged => (IndexesAgree(World) /\ IndexesAgree(World'))
      /\ \A f \in DOMAIN session_by_fd_ \ DOMAIN session_by_fd_' :
           /\ get_client_by_fd(World', f) = <<>>
           /\ get_client_by_id(World', session_by_fd_[f].id) = <<>> ]_vars

\* C11 witness: a session was added and removed again while a later one
\* is still live
C11_Witness ==
  /\ last.op \in {"eof", "hangup"}
  /\ Len(accepted) >= 2
  /\ DOMAIN session_by_fd_ # {}
  /\ Cardinality(DOMAIN session_by_fd_) < Len(accepted)
  /\ get_client_by_fd(World, last.fd) = <<>>

\* ------------------------------------------------------------------- C12
\* C12: a username is reported taken exactly when a live authenticated
\* session has it
C12_ReservedIffHeld ==
  /\ usernames_ \subseteq Names
  /\ \A n \in Names :
       is_username_taken(World, n)
         <=> \E f \in DOMAIN session_by_fd_ :
               /\ session_by_fd_[f].is_authenticated
               /\ session_by_fd_[f].username = n

\* ------------------------------------------------------------------- C13
\* the pieces of s between the occurrences of ch
RECURSIVE SplitAt(_, _)
SplitAt(s, ch) ==
  IF \A k \in 1..Len(s) : s[k] # ch THEN <<s>>
  ELSE LET k == Min({ j \in 1..Len(s) : s[j] = ch })
       IN  <<SubSeq(s, 1, k - 1)>> \o SplitAt(SubSeq(s, k + 1, Len(s)), ch)

\* the number written by a sequence of decimal digits, -1 if it is none
RECURSIVE ToNat(_)
ToNat(digits) ==
  IF digits = <<>> THEN -1
  ELSE LET d == digits[Len(digits)] - CharZero
           front == SubSeq(digits, 1, Len(digits) - 1)
       IN  IF d < 0 \/ d > 9 THEN -1
           ELSE IF front = <<>> THEN d
           ELSE IF ToNat(front) < 0 THEN -1 ELSE 10 * ToNat(front) + d

\* an entry `username:id` read back as a pair
ParseEntry(entry) ==
  LET parts == SplitAt(entry, CharColon)
  IN  IF Len(parts) = 2 THEN <<parts[1], ToNat(parts[2])>> ELSE <<entry, -1>>

\* the live authenticated sessions other than the one with handle f
ListedFor(f) ==
  { g \in DOMAIN session_by_fd_ :
      session_by_fd_[g].is_authenticated /\ session_by_fd_[g].id # session_by_fd_[f].id }

\* what a list request of the session with handle f may send: nothing when
\* no session is to be listed, else one reply, to f, with one entry per
\* listed session
ListReplyOk(out, f) ==
  IF ListedFor(f) = {} THEN out = <<>>
  ELSE /\ Len(out) = 1
       /\ out[1].fd = f
       /\ Decoded(out[1]).header.type = S2C_USER_JOINED_LIST
       /\ Decoded(out[1]).header.receiver_id = session_by_fd_[f].id
       /\ LET entries == SplitAt(Decoded(out[1]).payload, CharComma)
          IN  /\ Len(entries) = Cardinality(ListedFor(f))
              /\ { ParseEntry(entries[k]) : k \in 1..Len(entries) }
                   = { <<session_by_fd_[g].username, session_by_fd_[g].id>> :
                         g \in ListedFor(f) }

\* C13: a UserJoinedList request is answered to the requester only, with
\* the comma-joined `username:id` entries of exactly the other live
\* authenticated sessions, each once and without a trailing comma, and with
\* nothing when there is none; for every session that could ask when a read
\* has been handled, in every iteration order of the registry, and in every
\* request dispatched
C13_UserJoinedList ==
  [][ /\ (stale = <<>> /\ pc = "dispatch" /\ pc' = "wait")
        => \A f \in DOMAIN session_by_fd_ :
             \A order \in Orders(DOMAIN session_by_id_) :
               ListReplyOk(process_user_joined_list(World, f, order).sent, f)
      /\ Dispatched({C2S_USER_JOINED_LIST}) => ListReplyOk(sent', cur) ]_vars

\* C13 witness: two sessions are authenticated and a third one is live,
\* whose list reply has two entries
C13_Witness ==
  /\ stale = <<>>
  /\ pc = "dispatch"
  /\ NextFrame.message = <<>>
  /\ \E f \in DOMAIN session_by_fd_ :
       /\ Cardinality(ListedFor(f)) = 2
       /\ \A order \in Orders(DOMAIN session_by_id_) :
            LET out == process_user_joined_list(World, f, order).sent
            IN  /\ Len(out) = 1
                /\ Len(SplitAt(Decoded(out[1]).payload, CharComma)) = 2

\* ------------------------------------------------------------------- C14
\* the encoding of each frame of the connection
FrameCode == [m \in FramingFrames |-> serialize_message(m)]

\* the frames whose encodings, one after the other, make up bytes
RECURSIVE Unframe(_)
Unframe(bytes) ==
  LET first == { m \in FramingFrames :
                   /\ Len(FrameCode[m]) <= Len(bytes)
                   /\ SubSeq(bytes, 1, Len(FrameCode[m])) = FrameCode[m] }
  IN  IF first = {} THEN <<>>
      ELSE LET m == CHOOSE x \in first : TRUE
           IN  <<m>> \o Unframe(SubSeq(bytes, Len(FrameCode[m]) + 1, Len(bytes)))

\* the encodings of frames, one after the other
RECURSIVE Encoded(_)
Encoded(frames) ==
  IF frames = <<>> THEN <<>>
  ELSE FrameCode[Head(frames)] \o Encoded(Tail(frames))

\* the first handle: the one of the only connection of SpecFraming
FirstFd == ListenerFd + 1

\* the bytes of the connection that no decode has consumed: read buffer,
\* then what the server has not read yet
Undecoded == session_by_fd_[FirstFd].read_buffer \o conn[1].wire

\* the frames the client wrote that were not dispatched yet
Undispatched == Unframe(Undecoded)

\* what C14 asks of one step of the connection
FramingStepOk ==
  LET buffer == session_by_fd_[FirstFd].read_buffer
      bytes == Undecoded
      frames == Unframe(bytes)
      bytes_after == Undecoded'
  IN  /\ FirstFd \in DOMAIN session_by_fd_'
      /\ Encoded(frames) = bytes
      /\ (last'.op = "read")
           => (bytes_after = bytes /\ sent' = <<>>)
      /\ (last'.op = "dispatch")
           => /\ frames # <<>>
              /\ last'.message = <<frames[1]>>
              /\ bytes_after = SubSeq(bytes, Len(FrameCode[frames[1]]) + 1, Len(bytes))
              /\ Unframe(bytes_after) = Tail(frames)
              /\ Len(buffer) >= Len(FrameCode[frames[1]])
      /\ (pc = "dispatch" /\ pc' = "wait")
           => /\ bytes_after = bytes
              /\ session_by_fd_'[FirstFd].read_buffer = buffer
              /\ sent' = <<>>
              /\ \/ frames = <<>>
                 \/ Len(buffer) < Len(FrameCode[frames[1]])

\* C14: however the bytes of a connection are split across reads, each
\* dispatch gives process_message the oldest frame the client wrote that
\* was not dispatched yet, equal field by field, and consumes exactly it,
\* so the messages dispatched are the frames written, in order and each
\* once; a read dispatches and sends nothing, a frame is dispatched only
\* when all its bytes are in the read buffer, and the decode loop ends
\* exactly when the buffer holds no complete frame, keeping its bytes
C14_Framing ==
  [][ (FirstFd \in DOMAIN session_by_fd_) => FramingStepOk ]_vars

\* C14 witness: a frame was dispatched from a read that also brought the
\* first bytes of the next frame, less than a header, which wait in the read
\* buffer for the rest
C14_Witness ==
  /\ last.op = "dispatch"
  /\ FirstFd \in DOMAIN session_by_fd_
  /\ session_by_fd_[FirstFd].read_buffer # <<>>
  /\ conn[1].wire # <<>>
  /\ Len(Undispatched) = 1
  /\ Len(session_by_fd_[FirstFd].read_buffer) < HEADER_SIZE
  /\ nframes >= 2

\* ------------------------------------------------------------------- C15
\* the authenticated live sessions
AllAuth == { fd \in DOMAIN session_by_fd_ : session_by_fd_[fd].is_authenticated }

\* the registry of sessions is the same after the step
RegistryUnchanged ==
  UNCHANGED << next_client_id_, session_by_fd_, session_by_id_, usernames_ >>

\* C15: run() leaves its loop only with running_ false; the shutdown path
\* then closes the listening handle and sends nothing, after that sends one
\* ServerShutdown to every live authenticated session and nothing else, and
\* run() returns with every session still in the registry
C15_ShutdownPath ==
  [][ /\ (pc # "shutdown" /\ pc' = "shutdown") => ~running_
      /\ (pc = "shutdown" /\ pc' # "shutdown")
           => /\ pc' = "notify"
              /\ ListenerFd \in epoll_fds
              /\ ListenerFd \notin epoll_fds'
              /\ sent' = <<>>
              /\ RegistryUnchanged
      /\ (pc = "notify" /\ pc' # "notify")
           => /\ pc' = "returned"
              /\ ListenerFd \notin epoll_fds
              /\ ExactlyOnceTo(sent', AllAuth, S2C_SERVER_SHUTDOWN)
              /\ Len(sent') = Cardinality(AllAuth)
              /\ \A i \in 1..Len(sent') :
                   /\ Decoded(sent'[i]).header.sender_id = SERVER_ID
                   /\ Decoded(sent'[i]).header.receiver_id = BROADCAST_ID
                   /\ Decoded(sent'[i]).payload = TextShuttingDown
              /\ RegistryUnchanged
      /\ (pc' = "returned" /\ pc # "returned") => pc = "notify"
      /\ pc = "returned" => (pc' = "returned" /\ RegistryUnchanged) ]_vars

\* C15 witness: run() has returned after a shutdown that notified the one
\* authenticated session and not the unauthenticated one
C15_Witness ==
  /\ pc = "returned"
  /\ last.op = "shutdown"
  /\ Cardinality(DOMAIN session_by_fd_) >= 2
  /\ Cardinality(AllAuth) = 1
  /\ Len(sent) = 1
  /\ sent[1].fd \in AllAuth
  /\ Decoded(sent[1]).header.type = S2C_SERVER_SHUTDOWN

\* ------------------------------------------------------------------- C16
\* C16: once stop() has cleared the flag, run() eventually returns
C16_StopReturns == (stop_pc = "stored") ~> (pc = "returned")

\* a flag cleared after run() has set it stays clear, and run() is then
\* never left in epoll_wait without an event: the wake-up works whenever
\* stop() runs after the start of the loop
C16_ClearedStaysCleared ==
  [][ (~running_ /\ pc \notin {"start", "listening"}) => ~running_' ]_vars

C16_WokenWhenCleared ==
  (stop_pc = "done" /\ ~running_ /\ pc = "wait") => Pending # {}

\* the state the startup race ends in: stop() has finished, the flag is set
\* again, and run() is blocked in epoll_wait with nothing left to wake it
C16_BlockedForEver ==
  /\ stop_pc = "done"
  /\ pc = "wait"
  /\ running_
  /\ Pending = {}

\* ------------------------------------------------------------------- C17
\* the handles handle_client_disconnection can be called with
Handles == FdPool \cup {ClosedFd, ListenerFd}

\* C17: in every registry the server comes to hold,
\* handle_client_disconnection for a handle without a session sends
\* nothing and changes nothing, so a second call for the same handle adds
\* nothing to the first; a Leave dispatched after the session was removed
\* sends nothing and leaves the registry and the multiplexer as they are
C17_DisconnectIdempotent ==
  [][ /\ IndexesChanged
           => /\ \A fd \in Handles \ DOMAIN session_by_fd_' :
                   handle_client_disconnection(World', fd) = World'
              /\ \A fd \in Handles :
                   LET W1 == handle_client_disconnection(World', fd)
                   IN  handle_client_disconnection(W1, fd) = W1
      /\ ( /\ last'.op = "dispatch"
           /\ last'.freed
           /\ last'.message[1].header.type = C2S_LEAVE )
           => /\ sent' = <<>>
              /\ RegistryUnchanged
              /\ UNCHANGED << epoll_fds, fdconn, conn >> ]_vars

\* C17 witness: an authenticated session left, and a second Leave of the
\* same read ran the disconnect path again
C17_Witness ==
  /\ last.op = "dispatch"
  /\ last.freed
  /\ last.message[1].header.type = C2S_LEAVE
  /\ stale # <<>>
  /\ stale[1].is_authenticated
  /\ stale[1].fd = ClosedFd
  /\ last.fd \notin DOMAIN session_by_fd_

\* ------------------------------------------------------------------- C18
\* the sessions a broadcast that leaves out id x is for
Recipients(x) == { fd \in AllAuth : session_by_fd_[fd].id # x }

\* the handles whose send fails or would block
FailingSend == { fd \in DOMAIN session_by_fd_ : SendStatus(World, fd) # "OK" }

\* C18: whatever sends fail or would block, broadcast_message attempts one
\* send to every authenticated session that is not the excluded one, none to
\* another handle, and leaves the registry as it is; the UserLeft broadcast
\* of the disconnect path reaches every other authenticated session likewise
C18_BroadcastAll ==
  [][ /\ last'.op = "broadcast"
           => LET x == last'.message[1].header.sender_id
              IN  /\ ExactlyOnceTo(sent', Recipients(x), S2C_BROADCAST)
                  /\ Len(sent') = Cardinality(Recipients(x))
                  /\ RegistryUnchanged
                  /\ UNCHANGED << epoll_fds, fdconn, conn >>
      /\ (last'.op = "hangup" /\ last'.fd \in AllAuth)
           => /\ ExactlyOnceTo(sent', OthersAuth(last'.fd), S2C_USER_LEFT)
              /\ Len(sent') = Cardinality(OthersAuth(last'.fd))
              /\ DOMAIN session_by_fd_' = DOMAIN session_by_fd_ \ {last'.fd} ]_vars

\* C18 witness: a broadcast whose first send failed or would have blocked
\* went on to a recipient whose send succeeded
C18_Witness ==
  /\ last.op = "broadcast"
  /\ Len(sent) >= 2
  /\ sent[1].fd \in FailingSend
  /\ \E i \in 2..Len(sent) : SendStatus(World, sent[i].fd) = "WOULD_BLOCK"
  /\ sent[Len(sent)].fd \notin FailingSend

\* ------------------------------------------------------------------- C19
\* C19: deserialize_message of the encoding of one message, whatever its
\* type byte, returns that message field by field and the length of the
\* encoding, which is the header plus the payload
C19_RoundTrip ==
  [][ ( /\ codec_out = <<>>
        /\ codec_out' # <<>>
        /\ Len(codec_in) = 1
        /\ codec_buffer = serialize_message(codec_in[1]) )
      => LET m == codec_in[1]
             result == codec_out'[1]
         IN  /\ Len(codec_buffer) = HEADER_SIZE + Len(m.payload)
             /\ result.bytes_read = Len(codec_buffer)
             /\ Len(result.message) = 1
             /\ result.message[1].header.type = m.header.type
             /\ result.message[1].header.sender_id = m.header.sender_id
             /\ result.message[1].header.receiver_id = m.header.receiver_id
             /\ result.message[1].header.payload_size = Len(m.payload)
             /\ result.message[1].payload = m.payload
             /\ codec_buffer' = <<>> ]_vars

\* C19 witness: a message with a type byte outside the enum, ids of four
\* different bytes and a payload came back whole
C19_Witness ==
  /\ Len(codec_out) = 1
  /\ codec_out[1].message = codec_in
  /\ codec_buffer = <<>>
  /\ codec_in[1].header.type \notin MessageTypes
  /\ codec_in[1].header.receiver_id = 16909060
  /\ Len(codec_in[1].payload) = MaxPayload

\* ------------------------------------------------------------------- C20
\* the bytes the results so far have consumed
RECURSIVE Consumed(_)
Consumed(results) ==
  IF results = <<>> THEN 0
  ELSE results[1].bytes_read + Consumed(Tail(results))

\* C20: a call of deserialize_message on a buffer that holds less than the
\* next frame (less than a header, or less than header plus declared payload)
\* returns no message and consumes nothing; on a buffer that holds the frame
\* and more it returns that frame and consumes exactly its bytes; so the
\* calls return the frames in order, and when the buffer is used up every
\* byte that arrived has been consumed
C20_OneFrameOrNothing ==
  [][ codec_out' # codec_out
      => LET k == Len(codec_out) + 1
             code == serialize_message(codec_in[k])
             result == codec_out'[k]
         IN  /\ IF Len(codec_buffer) < Len(code)
                THEN /\ result = [message |-> <<>>, bytes_read |-> 0]
                     /\ codec_buffer' = codec_buffer
                ELSE /\ result.message = <<codec_in[k]>>
                     /\ result.bytes_read = Len(code)
                     /\ codec_buffer' = SubSeq(codec_buffer, Len(code) + 1,
                                               Len(codec_buffer))
             /\ Len(codec_buffer) < HEADER_SIZE => result.message = <<>>
             /\ codec_buffer' = <<>>
                  => /\ \A i \in 1..k : codec_out'[i].message = <<codec_in[i]>>
                     /\ Consumed(codec_out') = Len(CodecWire(SubSeq(codec_in, 1, k))) ]_vars

\* C20 witness: the first frame was returned with bytes behind it, and the
\* second call found a header whose payload had not arrived in full
C20_Witness ==
  /\ Len(codec_in) >= 2
  /\ Len(codec_out) = 2
  /\ codec_out[1].message = <<codec_in[1]>>
  /\ codec_out[2] = [message |-> <<>>, bytes_read |-> 0]
  /\ Len(codec_buffer) >= HEADER_SIZE
  /\ Len(codec_buffer) < HEADER_SIZE + codec_in[2].header.payload_size

\* ------------------------------------------------------------------- C21
\* the four bytes of the ids and sizes of the messages, most significant first
NetworkOrder(x) ==
  CASE x = 0 -> <<0, 0, 0, 0>>
    [] x = 1 -> <<0, 0, 0, 1>>
    [] x = 2 -> <<0, 0, 0, 2>>
    [] x = 3 -> <<0, 0, 0, 3>>
    [] x = 4 -> <<0, 0, 0, 4>>
    [] x = 258 -> <<0, 0, 1, 2>>
    [] x = 16909060 -> <<1, 2, 3, 4>>
    [] x = INVALID_ID -> <<255, 255, 255, 255>>

\* the layout of one frame: type, sender_id, receiver_id, payload_size, payload
FrameLayout(m) ==
  <<m.header.type>> \o NetworkOrder(m.header.sender_id)
    \o NetworkOrder(m.header.receiver_id) \o NetworkOrder(Len(m.payload)) \o m.payload

\* C21: the buffer serialize_message fills for a message is the 13-byte
\* header, the ids and the size of the payload most significant byte first,
\* and then the whole payload: 13 + len(payload) bytes and no more
C21_SerializedLayout ==
  [][ (codec_buffer = <<>> /\ codec_buffer' # <<>>)
      => /\ \A i \in 1..Len(codec_in) :
              /\ serialize_message(codec_in[i]) = FrameLayout(codec_in[i])
              /\ Len(serialize_message(codec_in[i]))
                   = HEADER_SIZE + Len(codec_in[i].payload)
         /\ Len(codec_in) = 1
              => /\ Len(codec_buffer') <= HEADER_SIZE + Len(codec_in[1].payload)
                 /\ codec_buffer' = SubSeq(FrameLayout(codec_in[1]), 1, Len(codec_buffer')) ]_vars

\* ------------------------------------------------------------------- C22
\* the sessions of the registry without their read buffers
SessionsOf(sessions) ==
  [fd \in DOMAIN sessions |-> [sessions[fd] EXCEPT !.read_buffer = <<>>]]

\* the step leaves every session, both indexes and the names as they are
SessionsUnchanged ==
  /\ SessionsOf(session_by_fd_') = SessionsOf(session_by_fd_)
  /\ UNCHANGED << next_client_id_, session_by_id_, usernames_, epoll_fds, fdconn, conn >>

\* C22: a Join dispatched for a session that is authenticated sends nothing
\* and leaves the session's name and flag, the taken names and the registry
\* as they are, whatever name the Join carries
C22_SecondJoinIgnored ==
  [][ (Dispatched({C2S_JOIN}) /\ session_by_fd_[cur].is_authenticated)
      => /\ sent' = <<>>
         /\ SessionsUnchanged ]_vars

\* C22 witness: with two authenticated sessions, one sent a Join with
\* another name than its own, and nothing was sent
C22_Witness ==
  /\ last.op = "dispatch"
  /\ ~last.freed
  /\ last.message[1].header.type = C2S_JOIN
  /\ sent = <<>>
  /\ Cardinality(AllAuth) = 2
  /\ last.fd \in AllAuth
  /\ session_by_fd_[last.fd].username # last.message[1].payload
  /\ last.message[1].payload \in usernames_

\* ------------------------------------------------------------------- C23
\* the type bytes that are no request of a client
OtherTypes ==
  0..255 \ {C2S_JOIN, C2S_USER_JOINED_LIST, C2S_BROADCAST, C2S_PRIVATE, C2S_LEAVE}

\* C23: a frame dispatched with a type that is none of the five requests
\* sends nothing, changes no session and no index, and leaves its sender
\* registered and in the decode loop; process_message does the same for
\* every other such type byte in its place
C23_UnknownIgnored ==
  [][ Dispatched(OtherTypes)
      => /\ sent' = <<>>
         /\ SessionsUnchanged
         /\ stale' = <<>>
         /\ cur \in DOMAIN session_by_fd_' /\ cur \in epoll_fds'
         /\ pc' = "dispatch" /\ cur' = cur
         /\ \A t \in OtherTypes :
              process_message(World, cur,
                              [NextFrame.message[1] EXCEPT !.header.type = t], <<>>)
                = World ]_vars

\* C23 witness: an authenticated session sent a frame with a server-to-client
\* type; it was dropped without a send, and the bytes behind it wait in the
\* read buffer of the session
C23_Witness ==
  /\ last.op = "dispatch"
  /\ ~last.freed
  /\ last.message[1].header.type \in OtherTypes
  /\ sent = <<>>
  /\ pc = "dispatch"
  /\ last.fd \in AllAuth
  /\ Len(session_by_fd_[last.fd].read_buffer) >= HEADER_SIZE

\* ------------------------------------------------------------------- C24
\* the handler has been called with a JoinFailure
JoinFailureHandled ==
  \E i \in 1..Len(handled) : handled[i].type = S2C_JOIN_FAILURE /\ ~handled[i].final

\* C24: once the client has handled a JoinFailure, is_running_ is false in
\* every state that follows, whatever the two threads do in between
C24_StoppedAfterJoinFailure == JoinFailureHandled => ~is_running_

\* the input loop is entered although a JoinFailure has been handled
C24_LoopEnteredAfterFailure ==
  JoinFailureHandled /\ is_running_ /\ main_pc = "getline"

\* the assignment at the end of connect_and_join is the only step that raises
\* the flag again after a JoinFailure
C24_OnlyConnectAndJoinRaises ==
  [][ (JoinFailureHandled /\ ~is_running_ /\ main_pc # "set_running")
      => ~is_running_' ]_vars

\* ------------------------------------------------------------------- C25
\* the handler runs for a message of one of the types and returns
HandlerRuns(types) ==
  /\ receiver_pc = "handler"
  /\ received.header.type \in types
  /\ receiver_pc' = "decode"

\* C25: after on_message_received has processed the shutdown notice of the
\* server, is_running_ is false
C25_ShutdownNoticeStops ==
  [][ HandlerRuns({S2C_SERVER_SHUTDOWN}) => ~is_running_' ]_vars

\* on_message_received leaves the client as it is for that notice
C25_ShutdownNoticeIgnored ==
  [][ HandlerRuns({S2C_SERVER_SHUTDOWN})
      => UNCHANGED << is_running_, user_id_, user_map_, connected_ >> ]_vars

\* the notice has been handled and the input loop reads the next line
C25_RunningAfterNotice ==
  /\ handled # <<>>
  /\ handled[Len(handled)].type = S2C_SERVER_SHUTDOWN
  /\ is_running_
  /\ main_pc = "getline"

\* ------------------------------------------------------------------- C26
\* the final notification, as an entry of handled
FinalCall == [type |-> S2C_USER_LEFT, sender_id |-> SERVER_ID, final |-> TRUE]

\* C26: the step that leaves the receive loop behind calls the handler with
\* a UserLeft from SERVER_ID: for the first time, with no complete frame left
\* unhandled in the receive buffer, with is_running_ false and the cache
\* unchanged afterwards; the thread ends with it, and no handler is called
\* after it
C26_FinalNotification ==
  [][ /\ (receiver_pc = "after_loop" /\ receiver_pc' # "after_loop")
          => /\ receiver_pc' = "done"
             /\ \A i \in 1..Len(handled) : ~handled[i].final
             /\ handled' = Append(handled, FinalCall)
             /\ deserialize_message(receive_buffer_).message = <<>>
             /\ ~is_running_'
             /\ user_map_' = user_map_
      /\ receiver_pc = "done" => UNCHANGED << receiver_pc, handled, user_map_ >>
      /\ (receiver_pc \in {"test", "receive"}
            /\ receiver_pc' \notin {receiver_pc, "receive", "decode"})
          => receiver_pc' = "after_loop" /\ ~connected_' ]_vars

\* C26 witness: the main thread has disconnected and joined the receiver
\* thread, which had handled real messages that filled the cache and then the
\* final notification
C26_Witness ==
  /\ receiver_pc = "done"
  /\ main_pc = "clear_running"
  /\ Len(handled) = 3
  /\ handled[3] = FinalCall
  /\ user_id_ \in DOMAIN user_map_
  /\ ~is_running_

\* ------------------------------------------------------------------- C27
\* the cache after one of the three messages, as the claim states it
CacheAfter(cache, message) ==
  CASE message.header.type = S2C_JOIN_SUCCESS ->
         (message.header.receiver_id :> username_) @@ cache
    [] message.header.type = S2C_USER_JOINED ->
         (message.header.sender_id :> message.payload) @@ cache
    [] message.header.type = S2C_USER_LEFT ->
         [k \in DOMAIN cache \ {message.header.sender_id} |-> cache[k]]

\* the handler of a message that touches the cache returns
HandlerReturns == receiver_pc = "access" /\ receiver_pc' # "access"

\* C27: when the handler of a JoinSuccess, a UserJoined or a UserLeft of
\* another user returns, the cache is the one before with the entry of the
\* message set or removed, and after a JoinSuccess the client's id is its
\* receiver_id; no step but the return of a handler changes the cache
C27_CacheFollowsMessages ==
  [][ /\ (HandlerReturns
           /\ received.header.type \in {S2C_JOIN_SUCCESS, S2C_USER_JOINED, S2C_USER_LEFT})
          => /\ user_map_' = CacheAfter(user_map_, received)
             /\ received.header.type = S2C_JOIN_SUCCESS
                  => user_id_' = received.header.receiver_id
      /\ ~HandlerReturns => user_map_' = user_map_ ]_vars

\* C27 witness: a JoinSuccess and then the UserJoined of user 2 have been
\* handled, and the cache holds both users
C27_Witness ==
  /\ Len(handled) = 2
  /\ handled[1].type = S2C_JOIN_SUCCESS
  /\ handled[2].type = S2C_USER_JOINED
  /\ receiver_pc = "decode"
  /\ user_id_ = 1
  /\ DOMAIN user_map_ = {1, 2}
  /\ user_map_[1] = username_
  /\ user_map_[2] = <<98>>

\* a UserLeft has removed the user a UserJoined had entered
C27_RemovedAgain ==
  /\ Len(handled) = 2
  /\ handled[1].type = S2C_USER_JOINED
  /\ handled[2].type = S2C_USER_LEFT
  /\ receiver_pc = "decode"
  /\ user_map_ = << >>

\* ------------------------------------------------------------------- C28
\* id -> username of the users the list built for a registry names
Listed(names) == [i \in 2..Len(names) |-> names[i]]

\* the handler of the list the server has built for the registry returns
ListHandled(names) ==
  /\ HandlerReturns
  /\ \E order \in Orders(1..Len(names)) :
       received = deserialize_message(ServerUserList(names, order)[1].data).message[1]

\* C28: when the client has handled the list the server built for a
\* registry, its cache holds id -> username of every listed user, and its
\* other entries as before
C28_ListRoundTrip ==
  [][ \A names \in ListRegistries :
        ListHandled(names)
          => /\ receiver_pc' = "decode"
             /\ user_map_' = Listed(names) @@ user_map_ ]_vars

\* a name that holds neither separator of the list
CleanName(name) ==
  \A i \in 1..Len(name) : name[i] \notin {CharComma, CharColon}

\* for registries in which no name holds a comma or a colon the round trip
\* holds
C28_CleanNamesRoundTrip ==
  [][ \A names \in ListRegistries :
        (ListHandled(names) /\ \A i \in 2..Len(names) : CleanName(names[i]))
          => /\ receiver_pc' = "decode"
             /\ user_map_' = Listed(names) @@ user_map_ ]_vars

\* the list of a user named "," has been handled: the cache holds the empty
\* name for the id 2
C28_CommaNameLost ==
  /\ handled # <<>>
  /\ handled[1].type = S2C_USER_JOINED_LIST
  /\ receiver_pc = "decode"
  /\ 2 \in DOMAIN user_map_
  /\ user_map_[2] = <<>>
  /\ 3 \notin DOMAIN user_map_

\* the list of a user named ":" has been handled: std::stoul has thrown and
\* the process has been terminated
C28_ColonNameTerminates == receiver_pc = "terminated" /\ main_pc = "terminated"

\* ------------------------------------------------------------------- C29
\* the name and the body of a line "@name body"
NameOfLine(line) == SubSeq(line, 2, Find(line, CharSpace, 1) - 1)
BodyOfLine(line) == SubSeq(line, Find(line, CharSpace, 1) + 1, Len(line))

\* the ids the cache holds for a name
CachedIds(name) == { k \in DOMAIN user_map_ : user_map_[k] = name }

\* the main thread takes a step from the place p
MainLeaves(p) == main_pc = p /\ main_pc' # p

\* the line read: "/exit" ends the loop without a message; an empty line and
\* "@name" without a space go back to the loop test without one; "@name body"
\* goes to the lookup of the name; any other line is handed to send_message
\* as a Broadcast of the whole line
LineRead ==
  MainLeaves("getline")
    => /\ line_out' = <<>>
       /\ CASE input' = TextExit -> main_pc' = "disconnect"
            [] input' = <<>> -> main_pc' = "loop_test"
            [] input' # <<>> /\ input'[1] = CharAt /\ Find(input', CharSpace, 1) = 0 ->
                 main_pc' = "loop_test"
            [] input' # <<>> /\ input'[1] = CharAt /\ Find(input', CharSpace, 1) # 0 ->
                 main_pc' = "lookup"
            [] OTHER ->
                 /\ main_pc' = "send"
                 /\ message_out'.header.type = C2S_BROADCAST
                 /\ message_out'.payload = input'

\* the lookup: a name in the cache gives a Private to an id cached with it,
\* with the body as payload; any other name goes back to the loop test
NameLookedUp ==
  MainLeaves("lookup_read")
    => IF CachedIds(NameOfLine(input)) # {}
       THEN /\ main_pc' = "send"
            /\ message_out'.header.type = C2S_PRIVATE
            /\ message_out'.header.receiver_id \in CachedIds(NameOfLine(input))
            /\ message_out'.payload = BodyOfLine(input)
       ELSE main_pc' = "loop_test"

\* send_message is called once for the line and writes the one frame to the
\* socket while the connection is up; nothing else sends for a line, and
\* after "/exit" the connection is disconnected
LineSent ==
  /\ MainLeaves("send")
       => /\ line_out = <<>>
          /\ line_out' \in {<<>>, <<serialize_message(message_out)>>}
          /\ (connected_ /\ socket_.st = "open")
               => line_out' = <<serialize_message(message_out)>>
          /\ main_pc' \in {"loop_test", "join_send"}
  /\ (main_pc \in {"getline", "lookup", "lookup_read", "disconnect", "join_send"}
        => line_out' = line_out)
  /\ MainLeaves("disconnect") => ~connected_' /\ socket_'.st = "closed"

\* C29: every line is decided by its form and results in at most one message
C29_LineDecides == [][ LineRead /\ NameLookedUp /\ LineSent ]_vars

\* outside the walk through the cache that races with an unlocked write, the
\* lines are decided as stated
C29_DecidesOutsideRace ==
  [][ LineRead /\ (UnlockedWrite \/ NameLookedUp) /\ LineSent ]_vars

\* the walk through the cache has raced with the write of
\* process_join_success and has returned an id that the cache does not hold
\* for the name: a Private to it is about to be sent
C29_PrivateToUnknown ==
  /\ UnlockedWrite
  /\ main_pc = "send"
  /\ message_out.header.type = C2S_PRIVATE
  /\ message_out.header.receiver_id \notin CachedIds(NameOfLine(input))

\* a Private has been sent to the id cached for the name
C29_PrivateSent ==
  /\ main_pc = "loop_test"
  /\ line_out = <<serialize_message(Message(C2S_PRIVATE, 1, 2, <<120>>))>>

\* ------------------------------------------------------------------- C30
\* C30: a thread that reads or writes the cache holds count_mutex_, and the
\* two threads are never in the cache at the same time
C30_CacheUnderMutex ==
  /\ receiver_pc = "access" => count_mutex_ = "receiver"
  /\ main_pc = "lookup_read" => count_mutex_ = "main"
  /\ ~(receiver_pc = "access" /\ main_pc = "lookup_read")

\* the receiver thread writes the cache in process_join_success while the
\* main thread walks through it in get_user_id_by_name
C30_WriteDuringLookup == UnlockedWrite /\ main_pc = "lookup_read"

\* the receiver thread reads the cache in process_chat_message without the
\* mutex
C30_UnlockedRead ==
  /\ receiver_pc = "access"
  /\ received.header.type = S2C_BROADCAST
  /\ count_mutex_ = "free"

\* the lookup of the main thread and the handlers of UserJoined, UserLeft and
\* UserJoinedList hold the mutex and exclude each other
C30_LockedAccessesExclusive ==
  /\ main_pc = "lookup_read" => count_mutex_ = "main"
  /\ (receiver_pc = "access" /\ LocksCache(received))
       => count_mutex_ = "receiver" /\ main_pc # "lookup_read"

\* ------------------------------------------------------------------- C31
\* "Username already taken"
TextUsernameTaken ==
  <<85, 115, 101, 114, 110, 97, 109, 101, 32, 97, 108, 114, 101, 97, 100, 121, 32,
    116, 97, 107, 101, 110>>

\* this step dispatches a Join of a live unauthenticated session for a
\* username that is taken
JoinRejected ==
  /\ Dispatched({C2S_JOIN})
  /\ ~session_by_fd_[cur].is_authenticated
  /\ NextFrame.message[1].payload \in usernames_

\* C31: the JoinFailure that answers a Join with a taken username has
\* receiver_id = INVALID_ID and the payload "Username already taken"
C31_JoinFailureContent ==
  [][ JoinRejected
      => \A i \in 1..Len(sent') :
           Decoded(sent'[i]).header.type = S2C_JOIN_FAILURE
             => /\ Decoded(sent'[i]).header.receiver_id = INVALID_ID
                /\ Decoded(sent'[i]).payload = TextUsernameTaken ]_vars

\* the JoinFailure the server sends: to the session's id, from SERVER_ID,
\* with the payload "Username already exists"
C31_JoinFailureSent ==
  [][ JoinRejected
      => /\ Len(sent') = 1
         /\ Decoded(sent'[1]) = Message(S2C_JOIN_FAILURE, SERVER_ID,
                                        session_by_fd_[cur].id, TextUsernameExists) ]_vars

\* ------------------------------------------------------------------- C32
\* C32: once the disconnect path has removed the session whose frames are
\* being dispatched (a Leave, or a Join rejected for a taken username), no
\* later frame of that read is dispatched and the removed session and its
\* read buffer are not used again
C32_NoDispatchAfterRemoval ==
  [][ (pc = "dispatch" /\ stale # <<>>)
        => /\ last'.op # "dispatch"
           /\ pc' # "dispatch" ]_vars

\* a frame was decoded from the read buffer of a removed session and handed
\* to process_message with that session
C32_DispatchedOnFreed ==
  /\ last.op = "dispatch"
  /\ last.freed
  /\ last.fd \notin DOMAIN session_by_fd_

\* the removal itself happens only in the dispatch of a Leave or of a Join
\* with a taken username, or in the dispatch of a frame on a session that
\* was removed before
C32_RemovedByLeaveOrJoin ==
  [][ (last'.op = "dispatch" /\ stale' # <<>>)
        => \/ stale # <<>>
           \/ Dispatched({C2S_LEAVE})
           \/ JoinRejected ]_vars

\* ------------------------------------------------------------------- C33
\* the bytes of the session with handle fd that no decode has consumed when
\* a read of it starts: its read buffer, then what is in the socket
Unconsumed(fd) == session_by_fd_[fd].read_buffer \o conn[fdconn[fd]].wire

\* C33: when a read brings complete frames together with the end of the
\* stream, the frames are dispatched before the disconnect path runs, so
\* the disconnect path after an orderly close finds no complete frame left
C33_FramesBeforeDisconnect ==
  [][ \A fd \in FdPool :
        (pc = "wait" /\ last'.op = "eof" /\ last'.fd = fd)
          => deserialize_message(Unconsumed(fd)).message = <<>> ]_vars

\* what the read of an orderly close does: the disconnect path and nothing
\* else, so that only UserLeft is sent and no frame is handed to
\* process_message
C33_CloseDispatchesNothing ==
  [][ \A fd \in FdPool :
        (pc = "wait" /\ last'.op = "eof" /\ last'.fd = fd)
          => /\ pc' # "dispatch"
             /\ fd \notin DOMAIN session_by_fd_'
             /\ \A i \in 1..Len(sent') :
                  Decoded(sent'[i]).header.type = S2C_USER_LEFT ]_vars

\* ------------------------------------------------------------------- C34
\* the sessions that the step sent a message of one of the types to
SentTo(types) ==
  { sent'[i].fd : i \in { k \in 1..Len(sent') : Decoded(sent'[k]).header.type \in types } }

\* the live sessions that are not authenticated
Unauthenticated == DOMAIN session_by_fd_ \ AllAuth

\* C34: no S2C_BROADCAST, S2C_PRIVATE, S2C_USER_JOINED, S2C_USER_LEFT,
\* S2C_USER_JOINED_LIST or S2C_SERVER_SHUTDOWN is sent to a session whose
\* authenticated flag is false
C34_NoChatToUnauthenticated ==
  [][ stale = <<>> =>
        SentTo({S2C_BROADCAST, S2C_PRIVATE, S2C_USER_JOINED, S2C_USER_LEFT,
                S2C_USER_JOINED_LIST, S2C_SERVER_SHUTDOWN})
          \cap Unauthenticated = {} ]_vars

\* the messages that go through broadcast_message reach authenticated
\* sessions only
C34_BroadcastOnlyAuthenticated ==
  [][ stale = <<>> =>
        SentTo({S2C_BROADCAST, S2C_USER_JOINED, S2C_USER_LEFT, S2C_SERVER_SHUTDOWN})
          \cap Unauthenticated = {} ]_vars

\* a Private was delivered to a session that is not authenticated
C34_PrivateToUnauthenticated ==
  /\ last.op = "dispatch"
  /\ ~last.freed
  /\ Len(sent) = 1
  /\ Decoded(sent[1]).header.type = S2C_PRIVATE
  /\ sent[1].fd \in Unauthenticated

\* ------------------------------------------------------------------- C35
\* the loop of run(): as long as an event is ready or a handler is running,
\* the server thread takes its next step
ServerLoop ==
  \/ HandleNewConnection
  \/ \E fd \in FdPool : HandleHangup(fd)
  \/ \E fd \in FdPool : HandleClientMessage(fd)
  \/ ProcessJoin
  \/ ProcessUserJoinedList
  \/ ProcessBroadcast
  \/ ProcessPrivate
  \/ ProcessLeave
  \/ ProcessUnknown
  \/ DecodeLoopEnd

\* epoll_wait would return an event, or a handler is running: the condition
\* under which ServerLoop can take a step
ServerReady ==
  \/ pc = "dispatch"
  \/ /\ pc = "wait"
     /\ \/ backlog # <<>>
        \/ \E fd \in epoll_fds \cap DOMAIN fdconn :
             \/ conn[fdconn[fd]].peer = "rst"
             \/ /\ conn[fdconn[fd]].wire # <<>> \/ conn[fdconn[fd]].peer = "fin"
                /\ get_client_by_fd(World, fd) # <<>>

\* the server with a fair loop, WF_vars(ServerLoop) written with the
\* enabling condition of ServerLoop spelled out: the loop does not stop
\* while an event is ready.  Clients may stay silent for ever
SpecDrain ==
  /\ Init /\ [][Next]_vars
  /\ []<>(~ServerReady) \/ []<><<ServerLoop>>_vars

\* ServerReady is the enabling condition of ServerLoop
ServerReadyIsEnabled == ServerReady <=> ENABLED <<ServerLoop>>_vars

\* the handle of the live session of connection c, if there is one
LiveFd(c) == { fd \in DOMAIN session_by_fd_ : fd \in DOMAIN fdconn /\ fdconn[fd] = c }

\* connection c is open, has a session, and a complete frame that the client
\* wrote on it has not been dispatched
FramePending(c) ==
  /\ conn[c].st = "open"
  /\ conn[c].peer = "up"
  /\ \E fd \in LiveFd(c) : deserialize_message(Unconsumed(fd)).message # <<>>

\* C35: a complete frame written to a connection that stays open is
\* eventually dispatched by a fair server loop: from every state in which
\* such a frame waits, a state is reached in which none does
C35_EventuallyDispatched ==
  (\E c \in Conns : FramePending(c)) ~> (\A c \in Conns : ~FramePending(c))

\* C35, the state in which the loop waits again: when the decode loop is
\* left no session has a complete frame in its read buffer
C35_Drained ==
  pc = "wait"
    => \A fd \in DOMAIN session_by_fd_ :
         deserialize_message(session_by_fd_[fd].read_buffer).message = <<>>

\* C35, the read: a readiness event is drained, the read buffer gets
\* everything the socket held, and every complete frame in it is dispatched
\* before the loop waits again
C35_ReadDrains ==
  [][ /\ last'.op = "read"
        => /\ conn'[fdconn[last'.fd]].wire = <<>>
           /\ session_by_fd_'[last'.fd].read_buffer = Unconsumed(last'.fd)
      /\ (pc = "dispatch" /\ stale = <<>> /\ NextFrame.message # <<>>)
        => /\ last'.op = "dispatch"
           /\ last'.message = NextFrame.message ]_vars

\* C35 witness: two frames that arrived in one read were both dispatched and
\* the loop waits again with the session live and nothing left to read
C35_Witness ==
  /\ pc = "wait"
  /\ nframes >= 2
  /\ Len(accepted) = 1
  /\ \E fd \in LiveFd(1) :
       /\ session_by_fd_[fd].is_authenticated
       /\ Unconsumed(fd) = <<>>
  /\ conn[1].peer = "up"

\* ------------------------------------------------------------------- C36
\* C36: whenever the loop is about to wait, epoll watches the listening
\* handle and exactly the handles of the live sessions, each of which is the
\* handle of an accepted connection; after the handling of a listener event
\* no connection is left pending
C36_WatchedAreLive ==
  pc = "wait"
    => /\ epoll_fds = {ListenerFd} \cup DOMAIN session_by_fd_
       /\ DOMAIN session_by_fd_ \subseteq DOMAIN fdconn
       /\ last.op = "accept" => \A c \in Conns : conn[c].st # "backlog"

\* C36, step by step: the handling of a listener event gives every pending
\* connection a session and a registration, and a step that removes a session
\* removes its registration
C36_AcceptAndDisconnect ==
  [][ /\ last'.op = "accept"
        => /\ Cardinality(DOMAIN session_by_fd_' \ DOMAIN session_by_fd_) = Len(backlog)
           /\ epoll_fds' \ epoll_fds = DOMAIN session_by_fd_' \ DOMAIN session_by_fd_
           /\ backlog' = <<>>
      /\ epoll_fds \ epoll_fds' = DOMAIN session_by_fd_ \ DOMAIN session_by_fd_' ]_vars

\* C36 witness: two connections were accepted in one listener event, one of
\* them has been disconnected since, and the loop waits
C36_Witness ==
  /\ pc = "wait"
  /\ Len(accepted) >= 2
  /\ Cardinality(DOMAIN session_by_fd_) = 1
  /\ epoll_fds = {ListenerFd} \cup DOMAIN session_by_fd_
  /\ ListenerFd + 2 \in epoll_fds

\* ------------------------------------------------------------------- C37
\* the ids of the live sessions
LiveIds == { session_by_fd_[fd].id : fd \in DOMAIN session_by_fd_ }

\* a step moves the live sessions forward only: a session that stays keeps
\* its handle and its id, keeps the authenticated flag once set and the
\* username once authenticated, and a session that appears has an id that no
\* session had before
LiveSessionsForward ==
  /\ \A fd \in DOMAIN session_by_fd_ :
       \A gd \in DOMAIN session_by_fd_' :
         (session_by_fd_'[gd].id = session_by_fd_[fd].id)
           => /\ gd = fd
              /\ session_by_fd_[fd].is_authenticated
                   => /\ session_by_fd_'[gd].is_authenticated
                      /\ session_by_fd_'[gd].username = session_by_fd_[fd].username
  /\ \A gd \in DOMAIN session_by_fd_' :
       session_by_fd_'[gd].id \notin LiveIds => session_by_fd_'[gd].id >= next_client_id_
  /\ DOMAIN session_by_id_' \subseteq LiveIds'

\* Closed is terminal: a removed session is not authenticated, named or
\* announced afterwards, and reserves no username
ClosedIsTerminal ==
  /\ (stale # <<>> /\ stale' # <<>>)
       => /\ stale'[1].is_authenticated = stale[1].is_authenticated
          /\ stale'[1].username = stale[1].username
  /\ stale # <<>> => usernames_' \subseteq usernames_
  /\ \A i \in 1..Len(sent') :
       Decoded(sent'[i]).header.type = S2C_USER_JOINED
         => Decoded(sent'[i]).header.sender_id \in LiveIds'

\* C37: each connection moves only forward through Connecting ->
\* Authenticated -> Closed: the authenticated flag is never cleared, the
\* username never changes once authenticated, the id never changes, and a
\* removed session is never seen again
C37_ForwardOnly == [][ LiveSessionsForward /\ ClosedIsTerminal ]_vars

\* the part of C37 about the sessions in the registry (holds)
C37_LiveSessionsForward == [][ LiveSessionsForward ]_vars

\* a session that the disconnect path had removed was authenticated by a
\* later Join of the same read and announced to the others
C37_JoinedAfterRemoval ==
  /\ last.op = "dispatch"
  /\ last.freed
  /\ stale # <<>>
  /\ stale[1].is_authenticated
  /\ stale[1].id \notin LiveIds
  /\ stale[1].username \in usernames_

\* ------------------------------------------------------------------- C38
\* the connection breaks with bytes of the client still unread in the
\* socket: epoll reports EPOLLIN together with EPOLLHUP/EPOLLERR
ClientAbort(c) ==
  /\ conn[c].st = "open"
  /\ conn[c].peer = "up"
  /\ conn' = [conn EXCEPT ![c].peer = "rst"]
  /\ UNCHANGED << backlog, nframes >>
  /\ ClientStep(c)

\* the frames written in SpecHangup
HangupFrames ==
  { Message(C2S_JOIN, INVALID_ID, SERVER_ID, n) : n \in Names }
    \cup { Message(C2S_BROADCAST, 1, BROADCAST_ID, <<120>>) }

NextHangup ==
  \/ \E c \in Conns : Connect(c)
  \/ \E c \in Conns, m \in HangupFrames : ClientWrite(c, m)
  \/ \E c \in Conns : ClientAbort(c)
  \/ HandleNewConnection
  \/ \E fd \in FdPool : HandleHangup(fd)
  \/ \E fd \in FdPool : HandleClientMessage(fd)
  \/ ProcessJoin
  \/ ProcessBroadcast
  \/ DecodeLoopEnd

\* the server with connections that break while their frames are unread
SpecHangup == Init /\ [][NextHangup]_vars

\* the server handles an event of the handle fd
EventOf(fd) ==
  /\ pc = "wait"
  /\ last'.op \in {"hangup", "eof", "read"}
  /\ last'.fd = fd

\* C38: an event with a hang-up or error flag runs the disconnect path at
\* once, also when the handle is readable: nothing is read, no frame of the
\* connection is dispatched, and only UserLeft is sent
C38_HangupWithoutRead ==
  [][ \A fd \in FdPool :
        (EventOf(fd) /\ conn[fdconn[fd]].peer = "rst")
          => /\ last'.op = "hangup"
             /\ pc' = "wait"
             /\ fd \notin DOMAIN session_by_fd_'
             /\ fd \notin epoll_fds'
             /\ \A i \in 1..Len(sent') :
                  /\ Decoded(sent'[i]).header.type = S2C_USER_LEFT
                  /\ Decoded(sent'[i]).header.sender_id = session_by_fd_[fd].id ]_vars

\* C38 witness: the hang-up of an authenticated session was handled while a
\* complete Broadcast of it was unread in the socket; the other session was
\* sent the UserLeft and no Broadcast
C38_Witness ==
  /\ last.op = "hangup"
  /\ deserialize_message(last.unread).message # <<>>
  /\ deserialize_message(last.unread).message[1].header.type = C2S_BROADCAST
  /\ Len(sent) = 1
  /\ Decoded(sent[1]).header.type = S2C_USER_LEFT
  /\ last.fd \notin DOMAIN session_by_fd_

\* ------------------------------------------------------------------- C39
\* The server and one client of it, frame by frame: the connection
\* ObservedConn runs main() of the client (Join as username_, then the list
\* request), the other connections join under other names and leave at any
\* time.  Each connection delivers in order, and the client handles what the
\* server sent to it before the next frame is dispatched.
ObservedConn == 2

\* the usernames of the other clients; the last one holds the separator of
\* the list entries
CacheNames == { <<98>>, <<99>>, <<98, CharComma>> }

\* receiver_loop: the handler is called for each message of out that was
\* sent to the handle fd, in the order sent
RECURSIVE Deliver(_, _, _)
Deliver(C, out, fd) ==
  IF out = <<>> THEN C
  ELSE Deliver(IF Head(out).fd = fd
               THEN on_message_received(C, Decoded(Head(out)))
               ELSE C,
               Tail(out), fd)

\* the server's variables take the values of W and the client has handled
\* what was sent to it
CacheCommit(W, next_pc) ==
  LET C == Deliver(ChatClient, W.sent, Source(ObservedConn))
  IN  /\ next_client_id_' = W.next_client_id_
      /\ session_by_fd_' = W.session_by_fd_
      /\ session_by_id_' = W.session_by_id_
      /\ usernames_' = W.usernames_
      /\ epoll_fds' = W.epoll_fds
      /\ conn' = W.conn
      /\ fdconn' = W.fdconn
      /\ sent' = W.sent
      /\ accepted' = W.accepted
      /\ user_map_' = C.user_map_
      /\ user_id_' = C.user_id_
      /\ is_running_' = C.is_running_
      /\ main_pc' = next_pc
      /\ UNCHANGED << pc, cur, stale, backlog, nframes, last, running_, stop_pc,
                      codec_in, codec_buffer, codec_out >>
      /\ UNCHANGED << count_mutex_, connected_, receive_buffer_, socket_, receiver_pc,
                      received, input, message_out, line_out, handled, nserver,
                      nlines >>

\* the next connection is opened and accepted; the client's connect() returns
CacheConnect(c) ==
  /\ c <= MaxSessions
  /\ conn[c].st = "idle"
  /\ \A d \in 1..(c - 1) : conn[d].st # "idle"
  /\ CacheCommit(handle_new_connection([World EXCEPT !.conn[c].st = "backlog"], <<c>>),
                 IF c = ObservedConn THEN "send_join" ELSE main_pc)

\* a frame of a live connection is read and dispatched
CacheFrame(c, message, order, next_pc) ==
  /\ Source(c) \in DOMAIN session_by_fd_
  /\ CacheCommit(process_message(World, Source(c), message, order), next_pc)

\* another client joins under one of the names
CacheJoin(c, n) ==
  /\ c # ObservedConn
  /\ CacheFrame(c, Message(C2S_JOIN, INVALID_ID, SERVER_ID, n), <<>>, main_pc)

\* another client leaves: its connection is closed
CacheLeave(c) ==
  /\ c # ObservedConn
  /\ Source(c) \in DOMAIN session_by_fd_
  /\ CacheCommit(handle_client_disconnection(World, Source(c)), main_pc)

\* connect_and_join of the client: the Join with its username
ObservedJoin ==
  /\ main_pc = "send_join"
  /\ CacheFrame(ObservedConn, Message(C2S_JOIN, INVALID_ID, SERVER_ID, username_),
                <<>>, "request_list")

\* main of the client: request_list_of_users
ObservedList ==
  /\ main_pc = "request_list"
  /\ \E order \in Orders(DOMAIN session_by_id_) :
       CacheFrame(ObservedConn, Message(C2S_USER_JOINED_LIST, user_id_, SERVER_ID, <<>>),
                  order, "loop_test")

NextCache ==
  \/ \E c \in Conns : CacheConnect(c)
  \/ \E c \in Conns, n \in CacheNames : CacheJoin(c, n)
  \/ \E c \in Conns : CacheLeave(c)
  \/ ObservedJoin
  \/ ObservedList

SpecCache == Init /\ [][NextCache]_vars

\* what the cache of a client should hold: the ids of the authenticated
\* sessions with their usernames
AuthenticatedUsers ==
  [ i \in { session_by_fd_[fd].id : fd \in AllAuth } |->
      session_by_fd_[CHOOSE fd \in AllAuth : session_by_fd_[fd].id = i].username ]

\* the client has joined, has requested the list, and has handled all that
\* the server sent to it
ObservedHasList ==
  /\ main_pc = "loop_test"
  /\ Source(ObservedConn) \in AllAuth

\* C39: once the joined client has handled every message the server sent to
\* it, its cache maps exactly the ids of the sessions authenticated on the
\* server to their usernames
C39_CacheAgrees == ObservedHasList => user_map_ = AuthenticatedUsers

\* the same for the clients whose usernames hold no separator
C39_CacheAgreesCleanNames ==
  (ObservedHasList /\ \A n \in usernames_ : Find(n, CharComma, 1) = 0)
    => user_map_ = AuthenticatedUsers

\* the ids in the cache are those of the authenticated sessions in every case
C39_CachedIdsAgree ==
  ObservedHasList => DOMAIN user_map_ = DOMAIN AuthenticatedUsers

\* ------------------------------------------------------------------- C40
\* the receive thread, once started, keeps running until it has ended
ReceiverThread ==
  \/ RecvLoopTest
  \/ RecvReceive
  \/ RecvDecode
  \/ RecvHandler
  \/ RecvAccess
  \/ RecvAfterLoop

\* the client of SpecClient with the messages and the lines that matter to
\* disconnect(): a message whose handler takes the mutex (UserJoined), one
\* whose handler does not (JoinSuccess), one that ends the input loop
\* (JoinFailure); "/exit", a line that is looked up under the mutex and sent
\* ("@b x"), and a line that is sent at once ("x y")
NextDisconnect ==
  \/ \E ok \in BOOLEAN : MainConnect(ok)
  \/ MainSendJoin
  \/ MainStartReceiving
  \/ MainSetRunning
  \/ MainRequestList
  \/ MainLoopTest
  \/ \E line \in { l \in InputLines : l = TextExit \/ Find(l, CharSpace, 1) # 0 } :
       MainGetline(line)
  \/ MainLookupLock
  \/ MainLookupRead
  \/ MainSendLine
  \/ MainDisconnect
  \/ MainJoin
  \/ MainClearRunning
  \/ RecvLoopTest
  \/ RecvReceive
  \/ RecvDecode
  \/ RecvHandler
  \/ RecvAccess
  \/ RecvAfterLoop
  \/ \E m \in { x \in ServerMessages :
                  x.header.type \in {S2C_JOIN_SUCCESS, S2C_JOIN_FAILURE, S2C_USER_JOINED} } :
       ServerSend(m)
  \/ ServerClose
  \/ ServerReset

\* the receive thread can take a step: it has started, has not ended, and is
\* blocked neither in receive_data nor on the mutex
ReceiverReady ==
  \/ receiver_pc \in {"test", "decode", "access", "after_loop"}
  \/ receiver_pc = "receive" /\ (socket_.st # "open" \/ socket_.rx # <<>>)
  \/ /\ receiver_pc = "handler"
     /\ (TouchesCache(received) /\ LocksCache(received)) => count_mutex_ = "free"

\* the client with both threads scheduled fairly, WF_vars(ReceiverThread) and
\* WF_vars(MainDisconnect \/ MainJoin) written with the enabling conditions
\* spelled out: the receive thread takes its next step unless it is blocked
\* in receive_data or on the mutex, and the thread inside disconnect() goes
\* on when join() can return.  The user and the server may stay silent
SpecDisconnect ==
  /\ Init /\ [][NextDisconnect]_vars
  /\ []<>(~ReceiverReady) \/ []<><<ReceiverThread>>_vars
  /\ \/ []<>(~(main_pc = "disconnect" \/ (main_pc \in {"join", "join_send"}
                                          /\ receiver_pc = "done")))
     \/ []<><<MainDisconnect \/ MainJoin>>_vars

\* ReceiverReady is the enabling condition of ReceiverThread
ReceiverReadyIsEnabled == ReceiverReady <=> ENABLED <<ReceiverThread>>_vars

\* the main thread is inside ServerConnection::disconnect
InDisconnect == main_pc \in {"disconnect", "join", "join_send"}

\* what C40 asks of one step
DisconnectStepOk ==
  /\ (InDisconnect /\ ~InDisconnect' /\ main_pc' # "terminated")
       => /\ receiver_pc = "done"
          /\ ~connected_'
          /\ socket_'.st = "closed"
  /\ (main_pc = "disconnect" /\ ~connected_ /\ socket_.st = "closed"
        /\ main_pc' # main_pc)
       => /\ connected_' = connected_
          /\ socket_' = socket_
          /\ main_pc' = "join"
  /\ (~connected_ /\ main_pc \in {"send_join", "request_list", "send"}
        /\ main_pc' # main_pc)
       => /\ line_out' = line_out
          /\ socket_' = socket_
          /\ ~InDisconnect'
  /\ InDisconnect => count_mutex_ # "main"

\* C40: a call of disconnect returns, and does so after the receive thread
\* has ended; a call on a connection that is already down changes nothing,
\* and send_message on it sends nothing
C40_DisconnectTerminates ==
  /\ InDisconnect ~> ~InDisconnect
  /\ [][DisconnectStepOk]_vars

\* C40 witness: disconnect has returned a second time, after the first call
\* was made for a failed send, and the receive thread has ended
C40_Witness ==
  /\ main_pc = "clear_running"
  /\ receiver_pc = "done"
  /\ ~connected_
  /\ nlines >= 1
  /\ input # TextExit
====
